---- MODULE Spec2Model ----
(***************************************************************************)
(* A model of the restriction-fragment index of pore-c                     *)
(* (src/src/pore_c/model.py: FragmentMap) and of the fragment assignment   *)
(* built on it.  Text conversions (str / int, the tab separated rows a     *)
(* BedTool keeps, the lines of a HiCRef file) are modelled by what they    *)
(* do: a number in text form is its sequence of decimal digits.            *)
(***************************************************************************)
EXTENDS Integers, Sequences, FiniteSets, TLC

\* ------------------------------------------------------------------ bounds
\* largest endpoint coordinate of a generated endpoint list
MaxPos == 3
\* largest total number of endpoints of a generated chromosome map
MaxEndpoints == 3
\* largest min_overlap a caller passes
MaxMinOverlap == 1
\* largest id offset handed to endpoints_to_intervals on its own
MaxOffset == 12

Chroms == {"chr1", "chr2"}

\* Python's None / an optional value, as the empty or one-element set
None == {}
Some(x) == {x}
Get(o) == CHOOSE x \in o : TRUE

Min(a, b) == IF a <= b THEN a ELSE b
Max(a, b) == IF a >= b THEN a ELSE b

\* ------------------------------------------------------- text conversions
\* str(n) for a non-negative integer: its decimal digits
RECURSIVE str(_)
str(n) ==
    IF n < 10 THEN <<n>> ELSE str(n \div 10) \o <<n % 10>>

\* int(s) for a string of decimal digits
RECURSIVE int(_)
int(s) ==
    IF Len(s) = 1 THEN s[1]
    ELSE 10 * int(SubSeq(s, 1, Len(s) - 1)) + s[Len(s)]

\* ------------------------------------------------------------ FragmentMap
\* interval_list with the ids counted from 1 (enumerate(..., 1))
interval_list_ids_from_one(chrom, positions, id_offset) ==
    [x \in 1..(Len(positions) - 1) |->
        <<chrom, positions[x], positions[x + 1], str(x + id_offset)>>]

\* the list comprehension of endpoints_to_intervals, for positions that
\* already carry the leading 0
interval_list(chrom, positions, id_offset) ==
    [x \in 1..(Len(positions) - 1) |->
        <<chrom, positions[x], positions[x + 1], str((x - 1) + id_offset)>>]

\* endpoints_to_intervals without the leading 0
endpoints_to_intervals_no_zero(chrom, positions, id_offset) ==
    [x \in 1..(Len(positions) - 1) |->
        <<chrom, positions[x], positions[x + 1], str((x - 1) + id_offset)>>]

endpoints_to_intervals(chrom, positions, id_offset) ==
    IF ~(positions[1] = 0)
    THEN interval_list(chrom, <<0>> \o positions, id_offset)
    ELSE interval_list(chrom, positions, id_offset)

\* BedTool(list of tuples): pybedtools keeps the intervals as rows of text
\* fields (chrom, start, end, name)
BedTool(intervals) ==
    [i \in 1..Len(intervals) |->
        <<intervals[i][1], str(intervals[i][2]), str(intervals[i][3]),
          intervals[i][4]>>]

\* the attributes of a pybedtools Interval read back from its row
chrom_of(iv) == iv[1]
start_of(iv) == int(iv[2])
stop_of(iv) == int(iv[3])
name_of(iv) == iv[4]

FragmentMap(bedtool, chrom_lengths) ==
    [bt |-> bedtool, chrom_lengths |-> chrom_lengths]

\* chrom_lengths[chrom] = value on a dict
SetItem(f, k, v) ==
    [x \in (DOMAIN f) \cup {k} |-> IF x = k THEN v ELSE f[x]]

EmptyDict == [x \in {} |-> 0]

\* the loop shared by from_dict, from_HiCRef and from_digest_iter: the
\* state (intervals, chrom_lengths, id_offset) after the first n items,
\* each item a pair <<chrom, endpoints>>
RECURSIVE build_loop(_, _)
build_loop(items, n) ==
    IF n = 0
    THEN [intervals |-> <<>>, chrom_lengths |-> EmptyDict, id_offset |-> 0]
    ELSE LET s == build_loop(items, n - 1)
             chrom == items[n][1]
             endpoints == items[n][2]
         IN  [intervals |-> s.intervals \o
                    endpoints_to_intervals(chrom, endpoints, s.id_offset),
              chrom_lengths |->
                    SetItem(s.chrom_lengths, chrom, endpoints[Len(endpoints)]),
              id_offset |-> s.id_offset + Len(endpoints)]

from_dict(dd) ==
    LET s == build_loop(dd, Len(dd))
    IN  FragmentMap(BedTool(s.intervals), Some(s.chrom_lengths))

\* SeqDigest(seq_name, positions, seq_length)
SeqDigest(seq_name, positions, seq_length) ==
    [seq_name |-> seq_name, positions |-> positions,
     seq_length |-> seq_length]

from_digest_iter(i) ==
    LET items == [n \in 1..Len(i) |-> <<i[n].seq_name, i[n].positions>>]
        s == build_loop(items, Len(items))
    IN  FragmentMap(BedTool(s.intervals), Some(s.chrom_lengths))

\* the keys of the defaultdict of save_to_HiCRef, in first-insertion order
RECURSIVE chrom_keys(_)
chrom_keys(bt) ==
    IF bt = <<>> THEN <<>>
    ELSE LET r == chrom_keys(SubSeq(bt, 1, Len(bt) - 1))
             c == chrom_of(bt[Len(bt)])
         IN  IF \E k \in 1..Len(r) : r[k] = c THEN r ELSE Append(r, c)

\* chrom_to_endpoints[chrom]: the stops of the chromosome's intervals
stops_of(bt, c) ==
    LET own == SelectSeq(bt, LAMBDA iv : chrom_of(iv) = c)
    IN  [k \in 1..Len(own) |-> stop_of(own[k])]

\* the lines written by save_to_HiCRef, each as its whitespace separated
\* fields: the chromosome, then str(endpoint) for every endpoint
save_to_HiCRef(self) ==
    LET keys == chrom_keys(self.bt)
    IN  [k \in 1..Len(keys) |->
            LET endpoints == stops_of(self.bt, keys[k])
            IN  <<keys[k]>> \o
                [e \in 1..Len(endpoints) |-> str(endpoints[e])]]

\* from_HiCRef on the lines of a file (fields = line.strip().split())
from_HiCRef(lines) ==
    LET items == [n \in 1..Len(lines) |->
                    LET fields == lines[n]
                        rest == Tail(fields)
                    IN  <<fields[1], [e \in 1..Len(rest) |-> int(rest[e])]>>]
        s == build_loop(items, Len(items))
    IN  FragmentMap(BedTool(s.intervals), Some(s.chrom_lengths))

\* a path as its dot separated parts, e.g. <<"frag_map", ".bed", ".gz">>
endswith_bed_gz(path) ==
    /\ Len(path) >= 2
    /\ path[Len(path) - 1] = ".bed"
    /\ path[Len(path)] = ".gz"

\* saveas(...).tabix(in_place=True, is_sorted=True, force=True): the rows
\* are copied as they stand and the file is bgzip-compressed
bgzip(rows) == [bgzf |-> rows]
gunzip(file) == file.bgzf

save_to_bed(self) == bgzip(self.bt)

\* BedTool(path): the rows of the file; no chrom_lengths
from_bed_file(file) == FragmentMap(gunzip(file), None)

\* ------------------------------------------------------------ iter_overlaps
\* _interval_from_tuple of _query_to_bedtool: a 3-tuple gets the id str(0)
interval_from_tuple(t) ==
    IF Len(t) = 3 THEN <<t[1], t[2], t[3], str(0)>> ELSE t

query_to_bedtool(query) == BedTool(<<interval_from_tuple(query)>>)

\* the number of bases two rows share (negative when they are apart)
overlap_bases(q, f) ==
    Min(stop_of(q), stop_of(f)) - Max(start_of(q), start_of(f))

\* intersect_hit pairing rows whatever their chromosomes
intersect_hit_any_chrom(q, f, zero_hits) ==
    \/ overlap_bases(q, f) > 0
    \/ /\ zero_hits
       /\ overlap_bases(q, f) = 0
       /\ (start_of(q) = stop_of(q) \/ start_of(f) = stop_of(f))

\* whether bedtools intersect pairs query row q with row f. Rows on one
\* chromosome that share at least one base are paired. A zero-length row
\* that touches the other row shares no base: bedtools reports it with 0
\* overlapping bases or leaves it out (zero_hits), depending on its build.
intersect_hit(q, f, zero_hits) ==
    /\ chrom_of(q) = chrom_of(f)
    /\ \/ overlap_bases(q, f) > 0
       \/ /\ zero_hits
          /\ overlap_bases(q, f) = 0
          /\ (start_of(q) = stop_of(q) \/ start_of(f) = stop_of(f))

\* query_bt.intersect(self.bt, sorted=True, wo=True) for a one-row query:
\* the paired rows in the order of self.bt, each as the fields of the
\* query row, the fragment row and the number of overlapping bases
intersect(query_bt, bt, zero_hits) ==
    LET q == query_bt[1]
        hits == SelectSeq(bt, LAMBDA f : intersect_hit(q, f, zero_hits))
    IN  [i \in 1..Len(hits) |->
            q \o hits[i] \o <<str(overlap_bases(q, hits[i]))>>]

\* BedToolsOverlap with frag_id and overlap declared in the other order
BedToolsOverlap_swapped(fields) ==
    [query_chrom |-> fields[1],
     query_start |-> int(fields[2]),
     query_end |-> int(fields[3]),
     query_id |-> fields[4],
     frag_chrom |-> fields[5],
     frag_start |-> int(fields[6]),
     frag_end |-> int(fields[7]),
     frag_id |-> int(fields[9]),
     overlap |-> int(fields[8])]

\* BedToolsOverlap with the overlap taken to be the fragment's own length
BedToolsOverlap_fragment_length(fields) ==
    [query_chrom |-> fields[1],
     query_start |-> int(fields[2]),
     query_end |-> int(fields[3]),
     query_id |-> fields[4],
     frag_chrom |-> fields[5],
     frag_start |-> int(fields[6]),
     frag_end |-> int(fields[7]),
     frag_id |-> int(fields[8]),
     overlap |-> int(fields[7]) - int(fields[6])]

\* BedToolsOverlap(*fields) with the conversions of __post_init__
BedToolsOverlap(fields) ==
    [query_chrom |-> fields[1],
     query_start |-> int(fields[2]),
     query_end |-> int(fields[3]),
     query_id |-> fields[4],
     frag_chrom |-> fields[5],
     frag_start |-> int(fields[6]),
     frag_end |-> int(fields[7]),
     frag_id |-> int(fields[8]),
     overlap |-> int(fields[9])]

\* every overlap bedtools reports for the query, in order
found_overlaps(self, query, zero_hits) ==
    LET rows == intersect(query_to_bedtool(query), self.bt, zero_hits)
    IN  [i \in 1..Len(rows) |-> BedToolsOverlap(rows[i])]

\* iter_overlaps skipping only the overlaps below min_overlap (<)
iter_overlaps_lt(self, query, min_overlap, zero_hits) ==
    SelectSeq(found_overlaps(self, query, zero_hits),
              LAMBDA overlap : ~(overlap.overlap < min_overlap))

\* iter_overlaps comparing with the default 0 instead of min_overlap
iter_overlaps_default_min(self, query, min_overlap, zero_hits) ==
    SelectSeq(found_overlaps(self, query, zero_hits),
              LAMBDA overlap : ~(overlap.overlap <= 0))

\* the overlaps iter_overlaps yields, in order
iter_overlaps(self, query, min_overlap, zero_hits) ==
    SelectSeq(found_overlaps(self, query, zero_hits),
              LAMBDA overlap : ~(overlap.overlap <= min_overlap))

\* ------------------------------------------------------- FragmentAssigner
\* the overlap chosen among several: the greatest overlap, and the lowest
\* fragment id among those tied for it
best_overlap(overlaps) ==
    CHOOSE i \in 1..Len(overlaps) :
        \A j \in 1..Len(overlaps) :
            \/ overlaps[i].overlap > overlaps[j].overlap
            \/ /\ overlaps[i].overlap = overlaps[j].overlap
               /\ overlaps[i].frag_id <= overlaps[j].frag_id

\* assign(segment, index, min_overlap); the discarding of overlaps
\* <= min_overlap is the filter of iter_overlaps
assign_to_fragment(segment, self, min_overlap, zero_hits) ==
    LET overlaps == iter_overlaps(self,
                        <<segment.chrom, segment.start, segment.end>>,
                        min_overlap, zero_hits)
    IN  IF Len(overlaps) = 0
        THEN [frag_id |-> None, mapping_type |-> "none"]
        ELSE IF Len(overlaps) = 1
        THEN [frag_id |-> Some(overlaps[1].frag_id),
              mapping_type |-> "simple"]
        ELSE [frag_id |-> Some(overlaps[best_overlap(overlaps)].frag_id),
              mapping_type |-> "multi_frag"]

\* ----------------------------------------------------------------- inputs
\* endpoint lists sorted ascending (the documented input of the builders);
\* a repeated endpoint is allowed, since nothing in the code rejects it
EndpointLists(n) ==
    {p \in [1..n -> 0..MaxPos] : \A i \in 1..(n - 1) : p[i] <= p[i + 1]}

AllLists == UNION {EndpointLists(n) : n \in 1..MaxEndpoints}

RECURSIVE TotalLen(_, _)
TotalLen(dd, n) ==
    IF n = 0 THEN 0 ELSE TotalLen(dd, n - 1) + Len(dd[n][2])

\* a dict: chromosomes in insertion order, each once
Dicts ==
    UNION {{dd \in [1..n -> Chroms \X AllLists] :
                /\ \A i, j \in 1..n : i # j => dd[i][1] # dd[j][1]
                /\ TotalLen(dd, n) <= MaxEndpoints} :
           n \in 1..Cardinality(Chroms)}

\* the fixture of the tests
Fixture ==
    << <<"chr1", <<10, 20, 30, 100>> >>, <<"chr2", <<5, 15, 25, 90>> >> >>

\* d: the chromosome -> endpoints map handed to the builders
\* fm: the index built from d; fm_hicref / fm_bed: the indexes read back
\*   from the HiCRef file / the .bed.gz file, each with the index its file
\*   was written from (history, for the round-trip statements)
\* hicref, bed: the two files, None until written
\* ret: the last call's arguments and result
\* align_table: the read groups handed to assign_fragments, in read order
\* pool: the state of the assign_fragments command and of its workers, or
\*   the generators of the workers that query one shared index
\* porec_df: the computed table of walks, None until compute() returns
\* log: the warnings and diagnostics recorded so far
VARIABLES d, fm, hicref, bed, fm_hicref, fm_bed, ret,
          align_table, pool, porec_df, log

vars == <<d, fm, hicref, bed, fm_hicref, fm_bed, ret,
          align_table, pool, porec_df, log>>

run_vars == <<align_table, pool, porec_df, log>>

\* no assign_fragments command is running
NoRun ==
    /\ align_table = <<>>
    /\ pool = [phase |-> "none"]
    /\ porec_df = None
    /\ log = {}

NoCall == [op |-> "none"]

Slots == {"fm", "fm_hicref", "fm_bed"}

\* the FragmentMap held in a slot, or None
MapOf(slot) ==
    IF slot = "fm" THEN fm
    ELSE IF slot = "fm_hicref"
    THEN (IF fm_hicref = None THEN None ELSE Some(Get(fm_hicref).map))
    ELSE (IF fm_bed = None THEN None ELSE Some(Get(fm_bed).map))

Paths == {<<"frag_map", ".bed", ".gz">>, <<"frag_map", ".bed">>}

Digests(dd) ==
    [n \in 1..Len(dd) |->
        SeqDigest(dd[n][1], dd[n][2], dd[n][2][Len(dd[n][2])])]

Init ==
    /\ d \in Dicts \cup {Fixture}
    /\ fm = None
    /\ hicref = None
    /\ bed = None
    /\ fm_hicref = None
    /\ fm_bed = None
    /\ ret = NoCall
    /\ NoRun

FromDict ==
    /\ fm = None
    /\ fm' = Some(from_dict(d))
    /\ UNCHANGED <<d, hicref, bed, fm_hicref, fm_bed, ret>>
    /\ UNCHANGED run_vars

FromDigestIter ==
    /\ fm = None
    /\ fm' = Some(from_digest_iter(Digests(d)))
    /\ UNCHANGED <<d, hicref, bed, fm_hicref, fm_bed, ret>>
    /\ UNCHANGED run_vars

SaveToHiCRef(slot) ==
    /\ MapOf(slot) # None
    /\ hicref' = Some([lines |-> save_to_HiCRef(Get(MapOf(slot))),
                       saved_from |-> [slot |-> slot,
                                       bt |-> Get(MapOf(slot)).bt]])
    /\ UNCHANGED <<d, fm, bed, fm_hicref, fm_bed, ret>>
    /\ UNCHANGED run_vars

FromHiCRef ==
    /\ hicref # None
    /\ fm_hicref' = Some([map |-> from_HiCRef(Get(hicref).lines),
                          loaded_from |-> Get(hicref).saved_from])
    /\ UNCHANGED <<d, fm, hicref, bed, fm_bed, ret>>
    /\ UNCHANGED run_vars

SaveToBed(slot, path) ==
    /\ MapOf(slot) # None
    /\ IF ~endswith_bed_gz(path)
       THEN \* raise ValueError: nothing is written
            UNCHANGED bed
       ELSE bed' = Some([file |-> save_to_bed(Get(MapOf(slot))),
                         saved_from |-> [slot |-> slot,
                                         bt |-> Get(MapOf(slot)).bt]])
    /\ UNCHANGED <<d, fm, hicref, fm_hicref, fm_bed, ret>>
    /\ UNCHANGED run_vars

FromBedFile(path) ==
    /\ bed # None
    /\ IF ~endswith_bed_gz(path)
       THEN \* raise ValueError: nothing is read
            UNCHANGED fm_bed
       ELSE fm_bed' = Some([map |-> from_bed_file(Get(bed).file),
                            loaded_from |-> Get(bed).saved_from])
    /\ UNCHANGED <<d, fm, hicref, bed, fm_hicref, ret>>
    /\ UNCHANGED run_vars

Next ==
    \/ FromDict
    \/ FromDigestIter
    \/ \E slot \in Slots : SaveToHiCRef(slot)
    \/ FromHiCRef
    \/ \E slot \in Slots, path \in Paths : SaveToBed(slot, path)
    \/ \E path \in Paths : FromBedFile(path)

Spec == Init /\ [][Next]_vars

\* --------------------------------------------------- queries on the index
\* the coordinates a caller queries with: those of the tests on the
\* fixture, every coordinate up to one past MaxPos otherwise
Coords ==
    IF d = Fixture THEN {5, 9, 10, 12, 15, 20, 25, 100, 110}
    ELSE 0..(MaxPos + 1)

IterOverlaps(chrom, start, end, min_overlap, zero_hits) ==
    /\ fm # None
    /\ ret = NoCall
    /\ start <= end
    /\ LET query == <<chrom, start, end, "my_id">>
       IN  ret' = [op |-> "iter_overlaps", query |-> query,
                   min_overlap |-> min_overlap,
                   value |-> iter_overlaps(Get(fm), query, min_overlap,
                                           zero_hits)]
    /\ UNCHANGED <<d, fm, hicref, bed, fm_hicref, fm_bed>>
    /\ UNCHANGED run_vars

AssignToFragment(chrom, start, end, min_overlap, zero_hits) ==
    /\ fm # None
    /\ ret = NoCall
    /\ start < end
    /\ LET segment == [chrom |-> chrom, start |-> start, end |-> end]
       IN  ret' = [op |-> "assign_to_fragment", segment |-> segment,
                   min_overlap |-> min_overlap,
                   value |-> assign_to_fragment(segment, Get(fm),
                                                min_overlap, zero_hits)]
    /\ UNCHANGED <<d, fm, hicref, bed, fm_hicref, fm_bed>>
    /\ UNCHANGED run_vars

\* the caller takes the result before its next call
Consume ==
    /\ ret # NoCall
    /\ ret' = NoCall
    /\ UNCHANGED <<d, fm, hicref, bed, fm_hicref, fm_bed>>
    /\ UNCHANGED run_vars

NextQuery ==
    \/ FromDict
    \/ \E chrom \in Chroms, start \in Coords, end \in Coords,
          min_overlap \in 0..MaxMinOverlap, zero_hits \in BOOLEAN :
            IterOverlaps(chrom, start, end, min_overlap, zero_hits)
    \/ \E chrom \in Chroms, start \in Coords, end \in Coords,
          min_overlap \in 0..MaxMinOverlap, zero_hits \in BOOLEAN :
            AssignToFragment(chrom, start, end, min_overlap, zero_hits)
    \/ Consume

SpecQuery == Init /\ [][NextQuery]_vars

\* ------------------------------------- endpoints_to_intervals on its own
InitIntervals ==
    /\ d = Fixture
    /\ fm = None
    /\ hicref = None
    /\ bed = None
    /\ fm_hicref = None
    /\ fm_bed = None
    /\ ret \in [op : {"call"}, chrom : Chroms,
                positions : AllLists \cup {<<10, 20, 30>>},
                id_offset : 0..MaxOffset \cup {100}]
    /\ NoRun

EndpointsToIntervals ==
    /\ ret.op = "call"
    /\ ret' = [op |-> "endpoints_to_intervals", chrom |-> ret.chrom,
               positions |-> ret.positions, id_offset |-> ret.id_offset,
               value |-> endpoints_to_intervals(ret.chrom, ret.positions,
                                                ret.id_offset)]
    /\ UNCHANGED <<d, fm, hicref, bed, fm_hicref, fm_bed>>
    /\ UNCHANGED run_vars

NextIntervals == EndpointsToIntervals

SpecIntervals == InitIntervals /\ [][NextIntervals]_vars

\* ------------------------------------------------------- assign_fragments
\* the defaults of the options of the assign_fragments command and the
\* number of partitions it repartitions the alignment table into
default_mapping_quality_cutoff == 1
default_min_overlap_length == 10
default_containment_cutoff == 99
npartitions == 1

\* the most read groups in an alignment table, the most workers
MaxReads == 2
MaxWorkers == 2

\* the chromosomes an index has fragments on
chroms_of_index(self) == {chrom_of(self.bt[i]) : i \in 1..Len(self.bt)}

\* segment data that breaks start < end or query_start < query_end
malformed_segment(s) ==
    \/ ~(s.start < s.end)
    \/ ~(s.query_start < s.query_end)

\* the alignments of a read that are considered at all
considered(group, mapping_quality_cutoff) ==
    SelectSeq(group,
              LAMBDA s : ~(s.mapping_quality < mapping_quality_cutoff))

\* the "contained" label: the chosen fragment's overlap exceeds
\* containment_cutoff percent of the fragment's own length
is_contained(overlaps, containment_cutoff) ==
    /\ Len(overlaps) > 0
    /\ LET o == overlaps[best_overlap(overlaps)]
       IN  o.overlap * 100 > containment_cutoff * (o.frag_end - o.frag_start)

\* one monomer: the segment with its fragment assignment and its label
monomer(segment, self, min_overlap, containment_cutoff, zero_hits) ==
    LET a == assign_to_fragment(segment, self, min_overlap, zero_hits)
        overlaps == iter_overlaps(self,
                        <<segment.chrom, segment.start, segment.end>>,
                        min_overlap, zero_hits)
    IN  [segment |-> segment,
         frag_id |-> a.frag_id,
         mapping_type |-> a.mapping_type,
         contained |-> is_contained(overlaps, containment_cutoff)]

\* build(group, index, min_overlap, containment_cutoff): one FragmentAssigner
\* call per segment, in the order of the group
build(group, self, min_overlap, containment_cutoff, zero_hits) ==
    [i \in 1..Len(group) |->
        monomer(group[i], self, min_overlap, containment_cutoff, zero_hits)]

\* the warnings of one read: a segment on a chromosome the index lacks
warnings(read_idx, group, self) ==
    {[level |-> "warning", kind |-> "UnknownFragmentReference",
      read_idx |-> read_idx, segment |-> i] :
        i \in {j \in 1..Len(group) :
                 group[j].chrom \notin chroms_of_index(self)}}

\* one read group processed: malformed segment data fails the read (a
\* diagnostic and no walk), an empty walk is skipped without a word
process_read(read_idx, group, self, opts, zero_hits) ==
    IF \E i \in 1..Len(group) : malformed_segment(group[i])
    THEN [rows |-> <<>>,
          log |-> {[level |-> "error", kind |-> "MalformedSegment",
                    read_idx |-> read_idx, segment |-> 0]}]
    ELSE LET g == considered(group, opts.mapping_quality_cutoff)
             walk == build(g, self, opts.min_overlap_length,
                           opts.containment_cutoff, zero_hits)
         IN  [rows |-> IF Len(walk) = 0 THEN <<>>
                       ELSE <<[read_idx |-> read_idx, walk |-> walk]>>,
              log |-> warnings(read_idx, g, self)]

\* repartition leaving the last read group of the table out
repartition_without_last(table, n) ==
    LET size == (Len(table) - 1 + n - 1) \div n
    IN  [p \in 1..n |->
            [i \in 1..Max(0, Min(size, Len(table) - 1 - (p - 1) * size)) |->
                (p - 1) * size + i]]

\* align_table.repartition(npartitions): n runs of successive read groups
\* (as indexes into the table), the last ones shorter or empty
repartition(table, n) ==
    LET size == (Len(table) + n - 1) \div n
    IN  [p \in 1..n |->
            [i \in 1..Max(0, Min(size, Len(table) - (p - 1) * size)) |->
                (p - 1) * size + i]]

\* an AlignedSegment: reference interval, interval on the read, quality
AlignedSegment(chrom, start, end, query_start, query_end, mapping_quality) ==
    [chrom |-> chrom, start |-> start, end |-> end,
     query_start |-> query_start, query_end |-> query_end,
     mapping_quality |-> mapping_quality]

\* read groups over the fixture's chromosomes: a read with a segment on a
\* chromosome the index lacks between two assignable ones, a read with
\* malformed segment data, an empty read group, a read with a segment
\* below the quality cutoff, a read of one segment on a lacking chromosome
ReadGroups ==
    { << AlignedSegment("chr1", 30, 80, 0, 50, 60),
         AlignedSegment("chr3", 0, 50, 50, 100, 60),
         AlignedSegment("chr2", 25, 90, 100, 165, 60) >>,
      << AlignedSegment("chr1", 30, 80, 0, 50, 60),
         AlignedSegment("chr1", 60, 30, 50, 80, 60) >>,
      << >>,
      << AlignedSegment("chr2", 25, 90, 0, 65, 60),
         AlignedSegment("chr1", 40, 70, 65, 95, 0),
         AlignedSegment("chr1", 5, 80, 95, 170, 60) >>,
      << AlignedSegment("chr3", 0, 50, 0, 50, 60) >> }

AlignTables == UNION {[1..n -> ReadGroups] : n \in 1..MaxReads}

\* the options with a quality cutoff that lets every alignment through
Options_no_cutoff ==
    [mapping_quality_cutoff |-> 0,
     min_overlap_length |-> default_min_overlap_length,
     containment_cutoff |-> default_containment_cutoff]

Options ==
    [mapping_quality_cutoff |-> default_mapping_quality_cutoff,
     min_overlap_length |-> default_min_overlap_length,
     containment_cutoff |-> default_containment_cutoff]

\* the fragment table of the run: the fixture's
fragment_df == from_dict(Fixture)

\* what assign_fragments makes of a read group of the table on fragment_df
\* with the command's options, worked out once for all steps
assigned ==
    [read_idx \in 1..MaxReads, group \in ReadGroups, zero_hits \in BOOLEAN |->
        process_read(read_idx, group, fragment_df, Options, zero_hits)]

InitPool ==
    /\ d = Fixture
    /\ fm = Some(fragment_df)
    /\ hicref = None
    /\ bed = None
    /\ fm_hicref = None
    /\ fm_bed = None
    /\ ret = NoCall
    /\ align_table \in AlignTables
    /\ pool = [phase |-> "none"]
    /\ porec_df = None
    /\ log = {}

index_vars == <<d, fm, hicref, bed, fm_hicref, fm_bed, ret>>

\* assign_fragments up to compute(): the table is cut into partitions, one
\* task each, and n_workers workers are started
AssignFragments(n_workers) ==
    /\ pool.phase = "none"
    /\ pool' = [phase |-> "computing",
                partitions |-> repartition(align_table, npartitions),
                pending |-> 1..npartitions,
                running |-> [w \in 1..n_workers |-> None],
                results |-> [p \in 1..npartitions |-> None]]
    /\ UNCHANGED <<index_vars, align_table, porec_df, log>>

\* an idle worker takes a task nobody has taken
Pull(w, p) ==
    /\ pool.phase = "computing"
    /\ w \in DOMAIN pool.running
    /\ pool.running[w] = None
    /\ p \in pool.pending
    /\ pool' = [pool EXCEPT
                  !.pending = @ \ {p},
                  !.running[w] = Some([part |-> p, next |-> 1,
                                       rows |-> <<>>])]
    /\ UNCHANGED <<index_vars, align_table, porec_df, log>>

\* a worker processes the next read group of its partition
ProcessRead(w, zero_hits) ==
    /\ pool.phase = "computing"
    /\ w \in DOMAIN pool.running
    /\ pool.running[w] # None
    /\ LET task == Get(pool.running[w])
           part == pool.partitions[task.part]
       IN  /\ task.next <= Len(part)
           /\ LET read_idx == part[task.next]
                  out == assigned[read_idx, align_table[read_idx], zero_hits]
              IN  /\ pool' = [pool EXCEPT !.running[w] =
                                Some([task EXCEPT
                                        !.next = @ + 1,
                                        !.rows = @ \o out.rows])]
                  /\ log' = log \cup out.log
    /\ UNCHANGED <<index_vars, align_table, porec_df>>

\* a worker that has processed its whole partition hands the rows back
Finish(w) ==
    /\ pool.phase = "computing"
    /\ w \in DOMAIN pool.running
    /\ pool.running[w] # None
    /\ LET task == Get(pool.running[w])
       IN  /\ task.next > Len(pool.partitions[task.part])
           /\ pool' = [pool EXCEPT
                         !.running[w] = None,
                         !.results[task.part] = Some(task.rows)]
    /\ UNCHANGED <<index_vars, align_table, porec_df, log>>

RECURSIVE concat(_, _)
concat(results, n) ==
    IF n = 0 THEN <<>> ELSE concat(results, n - 1) \o Get(results[n])

\* compute() returns the rows of the partitions in partition order
Compute ==
    /\ pool.phase = "computing"
    /\ \A p \in DOMAIN pool.results : pool.results[p] # None
    /\ porec_df' = Some(concat(pool.results, npartitions))
    /\ pool' = [pool EXCEPT !.phase = "computed"]
    /\ UNCHANGED <<index_vars, align_table, log>>

\* the command prints the column types and ends with raise ValueError
RaiseValueError ==
    /\ pool.phase = "computed"
    /\ pool' = [pool EXCEPT !.phase = "ValueError"]
    /\ UNCHANGED <<index_vars, align_table, porec_df, log>>

NextPool ==
    \/ \E n_workers \in 1..MaxWorkers : AssignFragments(n_workers)
    \/ \E w \in 1..MaxWorkers, p \in 1..npartitions : Pull(w, p)
    \/ \E w \in 1..MaxWorkers, zero_hits \in BOOLEAN : ProcessRead(w, zero_hits)
    \/ \E w \in 1..MaxWorkers : Finish(w)
    \/ Compute
    \/ RaiseValueError

SpecPool == InitPool /\ [][NextPool]_vars

\* every step that can be taken is taken in the end
SpecPoolFair == SpecPool /\ WF_vars(NextPool)

\* ----------------------------------------------------------- cluster_reads
\* the greatest coordinate on a read, the most alignments of a read, the
\* greatest trim
MaxQ == 3
MaxSegs == 3
MaxTrim == 1

\* the mapping qualities: a low one and a high one
MapQs == {0, 1}

RECURSIVE insert_by_query_start(_, _)
insert_by_query_start(sorted, s) ==
    IF sorted = <<>> THEN <<s>>
    ELSE IF sorted[Len(sorted)].query_start <= s.query_start
    THEN Append(sorted, s)
    ELSE Append(insert_by_query_start(SubSeq(sorted, 1, Len(sorted) - 1), s),
                sorted[Len(sorted)])

\* the alignments of a read ordered by query_start, those with one
\* query_start left in the order they came in
RECURSIVE by_query_start(_)
by_query_start(group) ==
    IF group = <<>> THEN <<>>
    ELSE insert_by_query_start(
             by_query_start(SubSeq(group, 1, Len(group) - 1)),
             group[Len(group)])

\* the alignments of a sequence at the indexes in keep, in their order
RECURSIVE at_indexes(_, _, _)
at_indexes(group, keep, n) ==
    IF n = 0 THEN <<>>
    ELSE IF n \in keep
    THEN Append(at_indexes(group, keep, n - 1), group[n])
    ELSE at_indexes(group, keep, n - 1)

\* a's query interval with trim bases cut off both ends lies inside b's
contains_trimmed(a, b, trim) ==
    /\ a.query_start + trim >= b.query_start
    /\ a.query_end - trim <= b.query_end

\* of two alignments that contain each other, whether the i-th is the one
\* to go: the lower mapping quality, and of equal ones the lower index
loses_tie(group, i, j) ==
    \/ group[i].mapping_quality < group[j].mapping_quality
    \/ /\ group[i].mapping_quality = group[j].mapping_quality
       /\ i < j

\* whether the i-th alignment is discarded as contained in another
is_discarded(group, i, trim) ==
    \E j \in 1..Len(group) :
        /\ j # i
        /\ contains_trimmed(group[i], group[j], trim)
        /\ contains_trimmed(group[j], group[i], trim)
             => loses_tie(group, i, j)

\* containment mode on one read: the quality cutoff, then the pairs
resolve_contained(group, trim, mapping_quality_cutoff) ==
    LET g == by_query_start(considered(group, mapping_quality_cutoff))
        keep == {i \in 1..Len(g) : ~is_discarded(g, i, trim)}
    IN  at_indexes(g, keep, Len(g))

\* the bases two alignments adjacent in query order share once trim bases
\* are cut off the end of the first and off the start of the second
overlap_after_trim(a, b, trim) ==
    Min(a.query_end - trim, b.query_end)
        - Max(a.query_start, b.query_start + trim)

\* of two overlapping alignments, whether the first is the one to go: the
\* shorter, of equal lengths the lower quality, of equal ones the first
first_is_discarded(a, b) ==
    LET la == a.query_end - a.query_start
        lb == b.query_end - b.query_start
    IN  \/ la < lb
        \/ /\ la = lb
           /\ a.mapping_quality <= b.mapping_quality

\* one pass over the ordered group: each alignment meets the last one kept
RECURSIVE scan(_, _, _)
scan(kept, rest, trim) ==
    IF rest = <<>> THEN kept
    ELSE IF kept = <<>> THEN scan(<<Head(rest)>>, Tail(rest), trim)
    ELSE IF overlap_after_trim(kept[Len(kept)], Head(rest), trim) <= 0
    THEN scan(Append(kept, Head(rest)), Tail(rest), trim)
    ELSE IF first_is_discarded(kept[Len(kept)], Head(rest))
    THEN scan(Append(SubSeq(kept, 1, Len(kept) - 1), Head(rest)),
              Tail(rest), trim)
    ELSE scan(kept, Tail(rest), trim)

\* overlap/trim mode on one read: the quality cutoff, then the pass
resolve_overlaps(group, trim, mapping_quality_cutoff) ==
    scan(<<>>, by_query_start(considered(group, mapping_quality_cutoff)),
         trim)

\* the alignments of the ordered group that are not among the kept ones
RECURSIVE discarded_of(_, _)
discarded_of(group, keep) ==
    IF group = <<>> THEN <<>>
    ELSE IF keep # <<>> /\ Head(keep) = Head(group)
    THEN discarded_of(Tail(group), Tail(keep))
    ELSE <<Head(group)>> \o discarded_of(Tail(group), keep)

\* what a tool writes and counts for an input of one read
tool_result(input_bam, keep) ==
    [keep_bam |-> keep,
     discard_bam |-> discarded_of(by_query_start(input_bam), keep),
     num_reads |-> IF Len(input_bam) > 0 THEN 1 ELSE 0,
     num_reads_kept |-> IF Len(keep) > 0 THEN 1 ELSE 0,
     num_aligns |-> Len(input_bam),
     num_aligns_kept |-> Len(keep)]

\* remove_contained_segments(input_bam, keep_bam, discard_bam,
\* mapping_quality_cutoff): no trim is among its arguments, the spans are
\* compared as they are
remove_contained_segments_tool(input_bam, mapping_quality_cutoff) ==
    tool_result(input_bam,
                resolve_contained(input_bam, 0, mapping_quality_cutoff))

\* cluster_reads(input_bam, keep_bam, discard_bam, trim,
\* mapping_quality_cutoff)
cluster_reads_tool(input_bam, trim, mapping_quality_cutoff) ==
    tool_result(input_bam,
                resolve_overlaps(input_bam, trim, mapping_quality_cutoff))

\* cluster_reads calling the tool of the other mode
cluster_reads_modes_swapped(input_bam, trim, contained, mapping_quality_cutoff) ==
    IF ~contained
    THEN LET t == remove_contained_segments_tool(input_bam,
                                                 mapping_quality_cutoff)
         IN  [keep_bam |-> t.keep_bam, discard_bam |-> t.discard_bam,
              stats |-> None]
    ELSE LET t == cluster_reads_tool(input_bam, trim,
                                     mapping_quality_cutoff)
         IN  [keep_bam |-> t.keep_bam, discard_bam |-> t.discard_bam,
              stats |-> Some([num_reads |-> t.num_reads,
                              num_reads_kept |-> t.num_reads_kept,
                              num_aligns |-> t.num_aligns,
                              num_aligns_kept |-> t.num_aligns_kept])]

\* cluster_reads handing the tools keep_bam and discard_bam the other way
\* round
cluster_reads_files_swapped(input_bam, trim, contained, mapping_quality_cutoff) ==
    IF contained
    THEN LET t == remove_contained_segments_tool(input_bam,
                                                 mapping_quality_cutoff)
         IN  [keep_bam |-> t.discard_bam, discard_bam |-> t.keep_bam,
              stats |-> None]
    ELSE LET t == cluster_reads_tool(input_bam, trim,
                                     mapping_quality_cutoff)
         IN  [keep_bam |-> t.discard_bam, discard_bam |-> t.keep_bam,
              stats |-> Some([num_reads |-> t.num_reads,
                              num_reads_kept |-> t.num_reads_kept,
                              num_aligns |-> t.num_aligns,
                              num_aligns_kept |-> t.num_aligns_kept])]

\* cluster_reads unpacking the counts of the alignments in the other order
cluster_reads_counts_swapped(input_bam, trim, contained, mapping_quality_cutoff) ==
    IF contained
    THEN LET t == remove_contained_segments_tool(input_bam,
                                                 mapping_quality_cutoff)
         IN  [keep_bam |-> t.keep_bam, discard_bam |-> t.discard_bam,
              stats |-> None]
    ELSE LET t == cluster_reads_tool(input_bam, trim,
                                     mapping_quality_cutoff)
         IN  [keep_bam |-> t.keep_bam, discard_bam |-> t.discard_bam,
              stats |-> Some([num_reads |-> t.num_reads,
                              num_reads_kept |-> t.num_reads_kept,
                              num_aligns |-> t.num_aligns_kept,
                              num_aligns_kept |-> t.num_aligns])]

\* cluster_reads handing the tools the option's default 0 instead of
\* mapping_quality_cutoff
cluster_reads_no_cutoff(input_bam, trim, contained, mapping_quality_cutoff) ==
    IF contained
    THEN LET t == remove_contained_segments_tool(input_bam, 0)
         IN  [keep_bam |-> t.keep_bam, discard_bam |-> t.discard_bam,
              stats |-> None]
    ELSE LET t == cluster_reads_tool(input_bam, trim, 0)
         IN  [keep_bam |-> t.keep_bam, discard_bam |-> t.discard_bam,
              stats |-> Some([num_reads |-> t.num_reads,
                              num_reads_kept |-> t.num_reads_kept,
                              num_aligns |-> t.num_aligns,
                              num_aligns_kept |-> t.num_aligns_kept])]

\* cluster_reads handing the clustering tool trim and mapping_quality_cutoff
\* in each other's place
cluster_reads_trim_as_cutoff(input_bam, trim, contained, mapping_quality_cutoff) ==
    IF contained
    THEN LET t == remove_contained_segments_tool(input_bam,
                                                 mapping_quality_cutoff)
         IN  [keep_bam |-> t.keep_bam, discard_bam |-> t.discard_bam,
              stats |-> None]
    ELSE LET t == cluster_reads_tool(input_bam, mapping_quality_cutoff,
                                     trim)
         IN  [keep_bam |-> t.keep_bam, discard_bam |-> t.discard_bam,
              stats |-> Some([num_reads |-> t.num_reads,
                              num_reads_kept |-> t.num_reads_kept,
                              num_aligns |-> t.num_aligns,
                              num_aligns_kept |-> t.num_aligns_kept])]

\* the cluster_reads command: with --contained the containment tool, which
\* is not given trim and whose counts are not taken; the clustering tool
\* otherwise
cluster_reads(input_bam, trim, contained, mapping_quality_cutoff) ==
    IF contained
    THEN LET t == remove_contained_segments_tool(input_bam,
                                                 mapping_quality_cutoff)
         IN  [keep_bam |-> t.keep_bam, discard_bam |-> t.discard_bam,
              stats |-> None]
    ELSE LET t == cluster_reads_tool(input_bam, trim,
                                     mapping_quality_cutoff)
         IN  [keep_bam |-> t.keep_bam, discard_bam |-> t.discard_bam,
              stats |-> Some([num_reads |-> t.num_reads,
                              num_reads_kept |-> t.num_reads_kept,
                              num_aligns |-> t.num_aligns,
                              num_aligns_kept |-> t.num_aligns_kept])]

\* an alignment of a read with the given interval on the read
QuerySegment(query_start, query_end, mapping_quality) ==
    AlignedSegment("chr1", 0, 1, query_start, query_end, mapping_quality)

QuerySegments ==
    {QuerySegment(qs, qe, mq) :
        qs \in 0..MaxQ, qe \in 0..MaxQ, mq \in MapQs} \
    {s \in [chrom : {"chr1"}, start : {0}, end : {1},
            query_start : 0..MaxQ, query_end : 0..MaxQ,
            mapping_quality : MapQs] : s.query_start >= s.query_end}

\* the records of a file told apart by their reference positions: the i-th
\* alignment lies at [i - 1, i) of the reference
numbered(group) ==
    [i \in 1..Len(group) |-> [group[i] EXCEPT !.start = i - 1, !.end = i]]

\* the alignments of one read as the reader hands them over: in query order
Groups ==
    {numbered(g) :
        g \in UNION {{h \in [1..n -> QuerySegments] :
                        \A i \in 1..(n - 1) :
                            h[i].query_start <= h[i + 1].query_start} :
                     n \in 1..MaxSegs}}

\* the read with alignments at [0,50), [45,100) and [40,48) on the read
ThreeAlignments ==
    << QuerySegment(0, 50, 60), QuerySegment(45, 100, 60),
       QuerySegment(40, 48, 60) >>

Trims(input_bam) == IF input_bam = ThreeAlignments THEN {2} ELSE 0..MaxTrim

Cutoffs == MapQs

InitResolve ==
    /\ d = Fixture
    /\ fm = None
    /\ hicref = None
    /\ bed = None
    /\ fm_hicref = None
    /\ fm_bed = None
    /\ ret \in [op : {"call"}, input_bam : Groups \cup {ThreeAlignments}]
    /\ NoRun

\* the command run on the alignments of one read
ClusterReads(trim, contained, mapping_quality_cutoff) ==
    /\ ret.op = "call"
    /\ trim \in Trims(ret.input_bam)
    /\ ret' = [op |-> "cluster_reads", input_bam |-> ret.input_bam,
               trim |-> trim, contained |-> contained,
               mapping_quality_cutoff |-> mapping_quality_cutoff,
               rerun |-> FALSE, discarded_before |-> 0,
               value |-> cluster_reads(ret.input_bam, trim, contained,
                                       mapping_quality_cutoff)]
    /\ UNCHANGED <<d, fm, hicref, bed, fm_hicref, fm_bed>>
    /\ UNCHANGED run_vars

\* the command run once more, on the keep_bam it wrote, with the options
\* it had
ClusterReadsAgain ==
    /\ ret.op = "cluster_reads"
    /\ ~ret.rerun
    /\ ret' = [ret EXCEPT
                 !.input_bam = ret.value.keep_bam,
                 !.rerun = TRUE,
                 !.discarded_before = Len(ret.value.discard_bam),
                 !.value = cluster_reads(ret.value.keep_bam, ret.trim,
                                         ret.contained,
                                         ret.mapping_quality_cutoff)]
    /\ UNCHANGED <<d, fm, hicref, bed, fm_hicref, fm_bed>>
    /\ UNCHANGED run_vars

NextResolve ==
    \/ \E trim \in 0..Max(MaxTrim, 2), contained \in BOOLEAN,
          mapping_quality_cutoff \in Cutoffs :
            ClusterReads(trim, contained, mapping_quality_cutoff)
    \/ ClusterReadsAgain

SpecResolve == InitResolve /\ [][NextResolve]_vars

\* -------------------------------------------------------- flatten_multiway
\* the most monomers of a walk, the greatest fragment id, the greatest size
MaxWalk == 4
MaxFrag == 3
MaxSize == 3

RECURSIVE binomial(_, _)
binomial(n, k) ==
    IF k = 0 THEN 1
    ELSE IF n = 0 THEN 0
    ELSE binomial(n - 1, k - 1) + binomial(n - 1, k)

\* every combination of positions with replacement (a position may recur)
RECURSIVE combinations_with_replacement(_, _, _)
combinations_with_replacement(first, n, k) ==
    IF k = 0 THEN << <<>> >>
    ELSE IF first > n THEN <<>>
    ELSE LET with == combinations_with_replacement(first, n, k - 1)
         IN  [i \in 1..Len(with) |-> <<first>> \o with[i]]
                 \o combinations_with_replacement(first + 1, n, k)

\* every way of taking k of the positions first..n, each in ascending
\* order, the ways in lexicographic order
RECURSIVE combinations(_, _, _)
combinations(first, n, k) ==
    IF k = 0 THEN << <<>> >>
    ELSE IF first > n THEN <<>>
    ELSE LET with == combinations(first + 1, n, k - 1)
         IN  [i \in 1..Len(with) |-> <<first>> \o with[i]]
                 \o combinations(first + 1, n, k)

\* the runs of k successive positions of 1..n, from the left
windows(n, k) ==
    [i \in 1..Max(0, n - k + 1) |-> [j \in 1..k |-> i + j - 1]]

RECURSIVE insert_by_fragment(_, _, _)
insert_by_fragment(walk, sorted, p) ==
    IF sorted = <<>> THEN <<p>>
    ELSE IF walk[sorted[Len(sorted)]] <= walk[p]
    THEN Append(sorted, p)
    ELSE Append(insert_by_fragment(walk,
                                   SubSeq(sorted, 1, Len(sorted) - 1), p),
                sorted[Len(sorted)])

\* the positions of a combination reordered by ascending fragment id
RECURSIVE by_fragment(_, _)
by_fragment(walk, positions) ==
    IF positions = <<>> THEN <<>>
    ELSE insert_by_fragment(walk,
             by_fragment(walk, SubSeq(positions, 1, Len(positions) - 1)),
             positions[Len(positions)])

\* one output record: the monomers (their fragment ids) at the positions
contact(walk, positions, sort) ==
    LET ps == IF sort THEN by_fragment(walk, positions) ELSE positions
    IN  [positions |-> ps, monomers |-> [j \in 1..Len(ps) |-> walk[ps[j]]]]

\* flatten(walk, size, mode, sort_by_fragment): the records in the order
\* they are emitted
flatten_multiway_tool(walk, size, sort, direct) ==
    LET chosen == IF direct THEN windows(Len(walk), size)
                  ELSE combinations(1, Len(walk), size)
    IN  [i \in 1..Len(chosen) |-> contact(walk, chosen[i], sort)]

\* flatten_multiway handing sort and direct over in the other order
flatten_multiway_flags_swapped(input_porec, size, sort, direct) ==
    flatten_multiway_tool(input_porec, size, direct, sort)

\* the flatten_multiway command
flatten_multiway(input_porec, size, sort, direct) ==
    flatten_multiway_tool(input_porec, size, sort, direct)

Walks == UNION {[1..n -> 1..MaxFrag] : n \in 0..MaxWalk}

InitFlatten ==
    /\ d = Fixture
    /\ fm = None
    /\ hicref = None
    /\ bed = None
    /\ fm_hicref = None
    /\ fm_bed = None
    /\ ret \in [op : {"call"}, input_porec : Walks]
    /\ NoRun

\* the command is started on a walk: nothing is written yet
FlattenMultiway(size, sort, direct) ==
    /\ ret.op = "call"
    /\ ret' = [op |-> "flatten_multiway", input_porec |-> ret.input_porec,
               size |-> size, sort |-> sort, direct |-> direct,
               output_porec |-> <<>>, closed |-> FALSE, previous |-> None]
    /\ UNCHANGED <<d, fm, hicref, bed, fm_hicref, fm_bed>>
    /\ UNCHANGED run_vars

\* the next record is written
Emit ==
    /\ ret.op = "flatten_multiway"
    /\ ~ret.closed
    /\ LET records == flatten_multiway(ret.input_porec, ret.size, ret.sort,
                                       ret.direct)
       IN  /\ Len(ret.output_porec) < Len(records)
           /\ ret' = [ret EXCEPT !.output_porec =
                        Append(@, records[Len(ret.output_porec) + 1])]
    /\ UNCHANGED <<d, fm, hicref, bed, fm_hicref, fm_bed>>
    /\ UNCHANGED run_vars

\* every record is written: the output is closed
Close ==
    /\ ret.op = "flatten_multiway"
    /\ ~ret.closed
    /\ Len(ret.output_porec) =
         Len(flatten_multiway(ret.input_porec, ret.size, ret.sort,
                              ret.direct))
    /\ ret' = [ret EXCEPT !.closed = TRUE]
    /\ UNCHANGED <<d, fm, hicref, bed, fm_hicref, fm_bed>>
    /\ UNCHANGED run_vars

\* a fresh call on the same walk with the same options
FlattenAgain ==
    /\ ret.op = "flatten_multiway"
    /\ ret.closed
    /\ ret.previous = None
    /\ ret' = [ret EXCEPT !.output_porec = <<>>, !.closed = FALSE,
                          !.previous = Some(ret.output_porec)]
    /\ UNCHANGED <<d, fm, hicref, bed, fm_hicref, fm_bed>>
    /\ UNCHANGED run_vars

NextFlatten ==
    \/ \E size \in 1..MaxSize, sort \in BOOLEAN, direct \in BOOLEAN :
          FlattenMultiway(size, sort, direct)
    \/ Emit
    \/ Close
    \/ FlattenAgain

SpecFlatten == InitFlatten /\ [][NextFlatten]_vars

\* ------------------------------------------- callers sharing one index
\* two workers, each holding at most one generator of iter_overlaps on the
\* shared index at a time
Callers == {"worker1", "worker2"}

\* the queries of the tests on the fixture, and one on chr2
SharedQueries ==
    {<<"chr1", 15, 25, "my_id">>, <<"chr1", 100, 110, "my_id">>,
     <<"chr1", 5, 5, "my_id">>, <<"chr1", 9, 10, "my_id">>,
     <<"chr1", 5, 20, "my_id">>, <<"chr2", 5, 20, "my_id">>}

\* no generator
Idle ==
    [state |-> "idle", query |-> <<>>, min_overlap |-> 0, rows |-> <<>>,
     got |-> <<>>, round |-> 0, first |-> <<>>]

\* the index built from the fixture and shared; nothing queried yet
InitShared ==
    /\ d = Fixture
    /\ fm = Some(from_dict(d))
    /\ hicref = None
    /\ bed = None
    /\ fm_hicref = None
    /\ fm_bed = None
    /\ ret = NoCall
    /\ align_table = <<>>
    /\ pool \in [phase : {"queries"}, zero_hits : BOOLEAN,
                 gen : {[c \in Callers |-> Idle]}]
    /\ porec_df = None
    /\ log = {}

\* fm.iter_overlaps(query, min_overlap): the call returns a generator, the
\* body has not run yet
IterOverlapsCall(c, query, min_overlap) ==
    /\ pool.phase = "queries"
    /\ pool.gen[c].state = "idle"
    /\ pool' = [pool EXCEPT !.gen[c] =
                    [Idle EXCEPT !.state = "created", !.query = query,
                                 !.min_overlap = min_overlap, !.round = 1]]
    /\ UNCHANGED <<index_vars, align_table, porec_df, log>>

\* what next() on the generator of caller c leaves of the generator: the
\* first next() runs the body up to the first yield (the query's BedTool,
\* bedtools intersect on self.bt, the filter), each next() hands over one
\* overlap or ends the generator
after_next(g, self, zero_hits) ==
    LET rows == IF g.state = "created"
                THEN iter_overlaps(self, g.query, g.min_overlap, zero_hits)
                ELSE g.rows
    IN  IF rows = <<>>
        THEN [g EXCEPT !.state = "exhausted", !.rows = <<>>]
        ELSE [g EXCEPT !.state = "running", !.rows = Tail(rows),
                       !.got = Append(g.got, Head(rows))]

\* next() on a generator whose first run uses up the intervals of self.bt
NextOverlap_consuming(c) ==
    /\ pool.phase = "queries"
    /\ pool.gen[c].state \in {"created", "running"}
    /\ pool' = [pool EXCEPT !.gen[c] =
                    after_next(pool.gen[c], Get(fm), pool.zero_hits)]
    /\ fm' = IF pool.gen[c].state = "created"
             THEN Some(FragmentMap(<<>>, Get(fm).chrom_lengths))
             ELSE fm
    /\ UNCHANGED <<d, hicref, bed, fm_hicref, fm_bed, ret>>
    /\ UNCHANGED <<align_table, porec_df, log>>

\* next() on the generator of caller c: nothing of self is assigned
NextOverlap(c) ==
    /\ pool.phase = "queries"
    /\ pool.gen[c].state \in {"created", "running"}
    /\ pool' = [pool EXCEPT !.gen[c] =
                    after_next(pool.gen[c], Get(fm), pool.zero_hits)]
    /\ UNCHANGED <<index_vars, align_table, porec_df, log>>

\* the caller, having taken every overlap, makes the identical call again
IterOverlapsAgain(c) ==
    /\ pool.phase = "queries"
    /\ pool.gen[c].state = "exhausted"
    /\ pool.gen[c].round = 1
    /\ pool' = [pool EXCEPT !.gen[c] =
                    [pool.gen[c] EXCEPT !.state = "created", !.round = 2,
                                        !.first = pool.gen[c].got,
                                        !.got = <<>>]]
    /\ UNCHANGED <<index_vars, align_table, porec_df, log>>

\* the caller lets go of its generator, taken to the end or not
Release(c) ==
    /\ pool.phase = "queries"
    /\ pool.gen[c].state # "idle"
    /\ pool' = [pool EXCEPT !.gen[c] = Idle]
    /\ UNCHANGED <<index_vars, align_table, porec_df, log>>

NextShared ==
    \/ \E c \in Callers, query \in SharedQueries,
          min_overlap \in 0..MaxMinOverlap :
            IterOverlapsCall(c, query, min_overlap)
    \/ \E c \in Callers : NextOverlap(c)
    \/ \E c \in Callers : IterOverlapsAgain(c)
    \/ \E c \in Callers : Release(c)

SpecShared == InitShared /\ [][NextShared]_vars

\* ------------------------------------------------------------- HicContact
\* the HicContact dataclass
HicContact(read_id, strand1, chr1, pos1, frag1, strand2, chr2, pos2, frag2, mapq1, mapq2) ==
    [read_id |-> read_id, strand1 |-> strand1, chr1 |-> chr1,
     pos1 |-> pos1, frag1 |-> frag1, strand2 |-> strand2, chr2 |-> chr2,
     pos2 |-> pos2, frag2 |-> frag2, mapq1 |-> mapq1, mapq2 |-> mapq2]

\* str(b) for a bool: the text True or False, letter by letter
str_bool(b) ==
    IF b THEN <<"T", "r", "u", "e">> ELSE <<"F", "a", "l", "s", "e">>

\* the text 16, the flag of a reverse strand alignment
sixteen == <<1, 6>>

\* HicContact.__str__: str() of the eleven fields joined by single
\* spaces, given as the fields between the spaces
HicContact_str(self) ==
    <<self.read_id, str_bool(self.strand1), self.chr1, str(self.pos1),
      str(self.frag1), str_bool(self.strand2), self.chr2, str(self.pos2),
      str(self.frag2), str(self.mapq1), str(self.mapq2)>>

\* HicContact.from_hictxt on a line given as its fields (vals =
\* hictxt.strip().split(" ")): None where the assertion on the number of
\* fields fails
from_hictxt(vals) ==
    IF Len(vals) # 11 THEN None
    ELSE Some(HicContact(vals[1], vals[2] = sixteen, vals[3], int(vals[4]),
                         int(vals[5]), vals[6] = sixteen, vals[7],
                         int(vals[8]), int(vals[9]), int(vals[10]),
                         int(vals[11])))

\* contacts with one- and two-digit numbers, on either strand
HicContacts ==
    {HicContact("read1", strand1, chr1, pos1, frag1, strand2, chr2, pos2,
                frag2, mapq1, mapq2) :
        strand1 \in BOOLEAN, strand2 \in BOOLEAN,
        chr1 \in Chroms, chr2 \in Chroms,
        pos1 \in {5, 12}, pos2 \in {20},
        frag1 \in {0, 1}, frag2 \in {1, 10},
        mapq1 \in {0, 60}, mapq2 \in {60}}

\* the lines of a hictxt file as an aligner's flags give them: 0 for the
\* forward and 16 for the reverse strand
HicTxtLines ==
    {<<"read1", flag1, chr1, str(5), str(0), flag2, chr2, str(20), str(1),
       str(60), str(60)>> :
        flag1 \in {<<0>>, sixteen}, flag2 \in {<<0>>, sixteen},
        chr1 \in Chroms, chr2 \in Chroms}

InitContact ==
    /\ d = Fixture
    /\ fm = None
    /\ hicref = None
    /\ bed = None
    /\ fm_hicref = None
    /\ fm_bed = None
    /\ ret \in [op : {"contact"}, contact : HicContacts]
              \cup [op : {"line"}, hictxt : HicTxtLines]
    /\ NoRun

\* str(contact)
Str ==
    /\ \/ ret.op = "contact"
       \/ ret.op = "from_hictxt" /\ ret.contact # None
    /\ ret' = [op |-> "str",
               contact |-> IF ret.op = "contact" THEN ret.contact
                           ELSE Get(ret.contact),
               hictxt |-> HicContact_str(IF ret.op = "contact"
                                         THEN ret.contact
                                         ELSE Get(ret.contact))]
    /\ UNCHANGED <<d, fm, hicref, bed, fm_hicref, fm_bed>>
    /\ UNCHANGED run_vars

\* HicContact.from_hictxt(line), on a line of a file or on the text str()
\* gave
FromHictxt ==
    /\ ret.op \in {"line", "str"}
    /\ ret' = [op |-> "from_hictxt",
               from_str |-> (ret.op = "str"),
               original |-> IF ret.op = "str" THEN Some(ret.contact)
                            ELSE None,
               hictxt |-> ret.hictxt,
               contact |-> from_hictxt(ret.hictxt)]
    /\ UNCHANGED <<d, fm, hicref, bed, fm_hicref, fm_bed>>
    /\ UNCHANGED run_vars

NextContact ==
    \/ Str
    \/ FromHictxt

SpecContact == InitContact /\ [][NextContact]_vars

\* ------------------------------------------------------------ map_to_bins
\* the most lines of a fragment reference, of a fragment-to-bin reference
\* and of a hictxt file
MaxFragLines == 2
MaxBinLines == 2
MaxContacts == 3

\* the characters . and - of a text, as their codes (a digit is kept as
\* the digit itself)
dot == <<46>>
minus_one == <<45, 1>>

\* whether int(s) succeeds: s is made of decimal digits
is_int(s) == s # <<>> /\ \A i \in 1..Len(s) : s[i] \in 0..9

\* a Python value with its type: an int and a str are never equal
PyInt(n) == [type |-> "int", value |-> n]
PyStr(s) == [type |-> "str", value |-> s]
PyTuple(t) == [type |-> "tuple", value |-> t]
py_eq(a, b) == a.type = b.type /\ a.value = b.value

\* a dict as its items in insertion order: key in dict, dict[key],
\* dict[key] = value
dict_contains(dict, key) ==
    \E i \in 1..Len(dict) : py_eq(dict[i].key, key)

dict_get(dict, key) ==
    dict[CHOOSE i \in 1..Len(dict) : py_eq(dict[i].key, key)].value

dict_set(dict, key, value) ==
    IF dict_contains(dict, key)
    THEN [i \in 1..Len(dict) |->
            IF py_eq(dict[i].key, key)
            THEN [key |-> dict[i].key, value |-> value]
            ELSE dict[i]]
    ELSE Append(dict, [key |-> key, value |-> value])

\* the line of the midpoint of a fragment: l = entry.strip().split()
midpoint_line(l) ==
    LET start == (int(l[2]) + int(l[3])) \div 2
    IN  <<l[1], str(start), str(start + 1), l[4]>>

\* the records bedtools intersect -wao gives for one row of a: the row
\* with each row of b it shares bases with (in the order of b) and the
\* number of bases, or once with a null row and 0
wao_rows(a_row, b) ==
    LET hits == SelectSeq(b, LAMBDA f : /\ chrom_of(f) = chrom_of(a_row)
                                        /\ overlap_bases(a_row, f) > 0)
    IN  IF hits = <<>>
        THEN << a_row \o <<dot, minus_one, minus_one, dot, str(0)>> >>
        ELSE [i \in 1..Len(hits) |->
                a_row \o hits[i] \o <<str(overlap_bases(a_row, hits[i]))>>]

\* midpoints.intersect(bin_bed, wao=True)
RECURSIVE intersect_wao(_, _)
intersect_wao(a, b) ==
    IF a = <<>> THEN <<>>
    ELSE wao_rows(Head(a), b) \o intersect_wao(Tail(a), b)

\* the writing loop writing a line for every record
RECURSIVE write_every_record(_, _)
write_every_record(map_bed, n) ==
    IF n = 0 THEN [lines |-> <<>>, frags_seen |-> {}]
    ELSE LET s == write_every_record(map_bed, n - 1)
             l == map_bed[n]
         IN  [lines |-> Append(s.lines, <<l[4], l[8]>>),
              frags_seen |-> s.frags_seen \cup {l[4]}]

\* the writing loop of fragment_bin_assignments after n records: the
\* lines written and frags_seen
RECURSIVE write_mapping(_, _)
write_mapping(map_bed, n) ==
    IF n = 0 THEN [lines |-> <<>>, frags_seen |-> {}]
    ELSE LET s == write_mapping(map_bed, n - 1)
             l == map_bed[n]
         IN  IF l[4] \notin s.frags_seen
             THEN [lines |-> Append(s.lines, <<l[4], l[8]>>),
                   frags_seen |-> s.frags_seen \cup {l[4]}]
             ELSE s

\* fragment_bin_assignments without frags_seen
fragment_bin_assignments_every_record(fragment_reference, bin_reference) ==
    LET midpoints == [i \in 1..Len(fragment_reference) |->
                        midpoint_line(fragment_reference[i])]
        map_bed == intersect_wao(midpoints, bin_reference)
    IN  [map_bed |-> map_bed,
         mapping_bed_out |->
            write_every_record(map_bed, Len(map_bed)).lines]

\* fragment_bin_assignments: the records of the intersection and the lines
\* of the mapping file
fragment_bin_assignments(fragment_reference, bin_reference) ==
    LET midpoints == [i \in 1..Len(fragment_reference) |->
                        midpoint_line(fragment_reference[i])]
        map_bed == intersect_wao(midpoints, bin_reference)
    IN  [map_bed |-> map_bed,
         mapping_bed_out |-> write_mapping(map_bed, Len(map_bed)).lines]

\* the first loop of bin_hic_data after n lines: frag_to_bin, and whether
\* and what it raised
RECURSIVE read_frag_bins(_, _)
read_frag_bins(lines, n) ==
    IF n = 0 THEN [raised |-> "none", frag_to_bin |-> <<>>]
    ELSE LET s == read_frag_bins(lines, n - 1)
             l == lines[n]
         IN  IF s.raised # "none" THEN s
             ELSE IF dict_contains(s.frag_to_bin, PyStr(l[1]))
             THEN [s EXCEPT !.raised =
                       "ValueError: fragment seen more than once"]
             ELSE IF ~is_int(l[1]) \/ ~is_int(l[2])
             THEN [s EXCEPT !.raised = "ValueError: invalid literal"]
             ELSE [s EXCEPT !.frag_to_bin =
                       dict_set(@, PyInt(int(l[1])), int(l[2]))]

\* the key of a contact taken as its bins come
contact_key_as_read(pt1, pt2) == <<pt1, pt2>>

\* the key a contact is counted under
contact_key(pt1, pt2) == IF pt1 > pt2 THEN <<pt2, pt1>> ELSE <<pt1, pt2>>

\* the second loop of bin_hic_data after n lines: the Counter, and whether
\* a fragment was missing from frag_to_bin
RECURSIVE count_contacts(_, _, _)
count_contacts(frag_to_bin, lines, n) ==
    IF n = 0 THEN [raised |-> "none", contacts |-> <<>>]
    ELSE LET s == count_contacts(frag_to_bin, lines, n - 1)
             l == lines[n]
             f1 == PyInt(int(l[5]))
             f2 == PyInt(int(l[9]))
         IN  IF s.raised # "none" THEN s
             ELSE IF ~dict_contains(frag_to_bin, f1)
                     \/ ~dict_contains(frag_to_bin, f2)
             THEN [s EXCEPT !.raised = "KeyError"]
             ELSE LET key == PyTuple(contact_key(dict_get(frag_to_bin, f1),
                                                 dict_get(frag_to_bin, f2)))
                      count == IF dict_contains(s.contacts, key)
                               THEN dict_get(s.contacts, key) ELSE 0
                  IN  [s EXCEPT !.contacts = dict_set(@, key, count + 1)]

\* bin_hic_data: what it raised, frag_to_bin, and the lines of the matrix
\* file (None when the file was not opened)
bin_hic_data(input_hictxt, frag_bin_reference) ==
    LET r == read_frag_bins(frag_bin_reference, Len(frag_bin_reference))
        c == count_contacts(r.frag_to_bin, input_hictxt, Len(input_hictxt))
    IN  IF r.raised # "none"
        THEN [raised |-> r.raised, frag_to_bin |-> r.frag_to_bin,
              output_bin_matrix |-> None]
        ELSE IF c.raised # "none"
        THEN [raised |-> c.raised, frag_to_bin |-> r.frag_to_bin,
              output_bin_matrix |-> None]
        ELSE [raised |-> "none", frag_to_bin |-> r.frag_to_bin,
              output_bin_matrix |->
                Some([i \in 1..Len(c.contacts) |->
                        <<str(c.contacts[i].key.value[1]),
                          str(c.contacts[i].key.value[2]),
                          str(c.contacts[i].value)>>])]

\* the lines of a fragment reference (chrom, start, end, fragment id): three
\* fragments, each under either of two ids
FragmentLines ==
    {<<iv[1], str(iv[2]), str(iv[3]), str(id)>> :
        iv \in {<<"chr1", 0, 4>>, <<"chr1", 4, 11>>, <<"chr2", 0, 6>>},
        id \in {0, 1}}

FragmentReferences ==
    UNION {[1..n -> FragmentLines] : n \in 1..MaxFragLines}

\* bin references (chrom, start, end, bin id): bins that tile both
\* chromosomes, and bins of chr1 alone of which two overlap
BinReferences ==
    { << <<"chr1", str(0), str(5), str(0)>>,
         <<"chr1", str(5), str(11), str(1)>>,
         <<"chr2", str(0), str(6), str(2)>> >>,
      << <<"chr1", str(0), str(5), str(0)>>,
         <<"chr1", str(0), str(11), str(1)>> >> }

\* fragment-to-bin references (fragment id, bin id) as a user may hand them
\* over, a fragment id on two lines included
FragBinReferences ==
    UNION {[1..n -> {<<str(f), str(b)>> : f \in {0, 1}, b \in {0, 1, 2}}] :
           n \in 0..MaxBinLines}

\* a line of a hictxt file for a contact of two fragments
hictxt_line(frag1, frag2) ==
    <<"read1", <<0>>, "chr1", str(5), str(frag1), sixteen, "chr1", str(20),
      str(frag2), str(60), str(60)>>

HicTxtFiles ==
    UNION {[1..n -> {hictxt_line(f1, f2) : f1 \in {0, 1}, f2 \in {0, 1}}] :
           n \in 0..MaxContacts}

InitBins ==
    /\ d = Fixture
    /\ fm = None
    /\ hicref = None
    /\ bed = None
    /\ fm_hicref = None
    /\ fm_bed = None
    /\ ret \in [op : {"files"}, fragment_reference : FragmentReferences,
                bin_reference : BinReferences]
              \cup [op : {"frag_bins"},
                    frag_bin_reference : FragBinReferences]
    /\ NoRun

\* the fragment-bin-assignments command
FragmentBinAssignments ==
    /\ ret.op = "files"
    /\ ret' = [op |-> "fragment_bin_assignments",
               fragment_reference |-> ret.fragment_reference,
               bin_reference |-> ret.bin_reference,
               value |-> fragment_bin_assignments(ret.fragment_reference,
                                                  ret.bin_reference)]
    /\ UNCHANGED <<d, fm, hicref, bed, fm_hicref, fm_bed>>
    /\ UNCHANGED run_vars

\* the bin-hic-data command, on the mapping file the other command wrote
\* or on the reference handed over
BinHicData(input_hictxt) ==
    /\ ret.op \in {"frag_bins", "fragment_bin_assignments"}
    /\ LET frag_bin_reference ==
               IF ret.op = "frag_bins" THEN ret.frag_bin_reference
               ELSE ret.value.mapping_bed_out
       IN  ret' = [op |-> "bin_hic_data",
                   input_hictxt |-> input_hictxt,
                   frag_bin_reference |-> frag_bin_reference,
                   value |-> bin_hic_data(input_hictxt, frag_bin_reference)]
    /\ UNCHANGED <<d, fm, hicref, bed, fm_hicref, fm_bed>>
    /\ UNCHANGED run_vars

NextBins ==
    \/ FragmentBinAssignments
    \/ \E input_hictxt \in HicTxtFiles : BinHicData(input_hictxt)

SpecBins == InitBins /\ [][NextBins]_vars

\* ================================================================ claims
\* the fragment rows of an index as (chrom, start, end, id) with the
\* numbers read back from their text
Fragment(iv) == <<chrom_of(iv), start_of(iv), stop_of(iv), int(name_of(iv))>>
Fragments(bt) == {Fragment(bt[i]) : i \in 1..Len(bt)}

\* positions with the implicit leading 0
WithZero(P) == IF P[1] # 0 THEN <<0>> \o P ELSE P

\* C1: endpoints_to_intervals(chrom, P, k) prepends 0 to P when P[0] # 0
\* and returns exactly one interval (chrom, P[i], P[i+1]) per pair of
\* successive endpoints, in order, the i-th (from 0) carrying id k+i; on
\* the inputs of test_endpoints_to_intervals it returns the tested lists.
C1_EndpointsToIntervals ==
    ret.op = "endpoints_to_intervals" =>
        LET Q == WithZero(ret.positions)
            out == ret.value
        IN  /\ Len(out) = Len(Q) - 1
            /\ \A i \in 1..Len(out) :
                /\ out[i][1] = ret.chrom
                /\ out[i][2] = Q[i]
                /\ out[i][3] = Q[i + 1]
                /\ int(out[i][4]) = ret.id_offset + (i - 1)
            /\ (ret.chrom = "chr1" /\ ret.positions = <<10, 20, 30>>
                    /\ ret.id_offset = 100)
                => out = << <<"chr1", 0, 10, <<1, 0, 0>> >>,
                            <<"chr1", 10, 20, <<1, 0, 1>> >>,
                            <<"chr1", 20, 30, <<1, 0, 2>> >> >>

\* a call that prepended the 0, made several intervals and two-digit ids
C1_Witness ==
    /\ ret.op = "endpoints_to_intervals"
    /\ ret.positions[1] # 0
    /\ Len(ret.value) >= 3
    /\ ret.id_offset >= 9

\* strictly increasing after the implicit 0 prefix
StrictlyIncreasing(P) ==
    \A i \in 1..(Len(WithZero(P)) - 1) : WithZero(P)[i] < WithZero(P)[i + 1]

Malformed(dd) == \E n \in 1..Len(dd) : ~StrictlyIncreasing(dd[n][2])

\* C2: construction from endpoints fails, and builds no index, whenever
\* some chromosome's endpoint list is not strictly increasing after the
\* implicit 0 prefix.
C2_MalformedEndpointsRejected ==
    Malformed(d) => (fm = None /\ fm_hicref = None)

\* the position of a chromosome in the insertion order of d
ChromIndex(c) == CHOOSE n \in 1..Len(d) : d[n][1] = c

\* how many fragment rows belong to chromosomes inserted before the n-th
FragmentsBefore(bt, n) ==
    Cardinality({i \in 1..Len(bt) : ChromIndex(chrom_of(bt[i])) < n})

\* C3: fragment ids are globally unique and strictly increasing in
\* (chromosome insertion order, start) order, and the first id of each
\* chromosome equals the number of fragments of all chromosomes added
\* before it, for every endpoint list (a first endpoint of 0 included).
\* Stated for the well-formed (strictly increasing) lists alone.
C3_IdsCountFragments ==
    (fm # None /\ ~Malformed(d)) =>
        LET bt == Get(fm).bt
        IN  /\ \A i, j \in 1..Len(bt) :
                    i # j => int(name_of(bt[i])) # int(name_of(bt[j]))
            /\ \A i, j \in 1..Len(bt) :
                    (\/ ChromIndex(chrom_of(bt[i])) < ChromIndex(chrom_of(bt[j]))
                     \/ /\ chrom_of(bt[i]) = chrom_of(bt[j])
                        /\ start_of(bt[i]) < start_of(bt[j]))
                    => int(name_of(bt[i])) < int(name_of(bt[j]))
            /\ \A i \in 1..Len(bt) :
                    (\A j \in 1..(i - 1) : chrom_of(bt[j]) # chrom_of(bt[i]))
                    => int(name_of(bt[i])) =
                            FragmentsBefore(bt, ChromIndex(chrom_of(bt[i])))

\* the intervals of chromosome c tile [0, length)
Tiles(bt, c, length) ==
    LET own == SelectSeq(bt, LAMBDA iv : chrom_of(iv) = c)
    IN  IF Len(own) = 0 THEN length = 0
        ELSE /\ start_of(own[1]) = 0
             /\ stop_of(own[Len(own)]) = length
             /\ \A i \in 1..Len(own) : start_of(own[i]) <= stop_of(own[i])
             /\ \A i \in 1..(Len(own) - 1) :
                    stop_of(own[i]) = start_of(own[i + 1])
             /\ \A i, j \in 1..Len(own) :
                    i < j => ~(Max(start_of(own[i]), start_of(own[j]))
                                < Min(stop_of(own[i]), stop_of(own[j])))

Covered(m) ==
    /\ m.chrom_lengths # None
    /\ \A i \in 1..Len(m.bt) :
            chrom_of(m.bt[i]) \in DOMAIN Get(m.chrom_lengths)
    /\ \A c \in DOMAIN Get(m.chrom_lengths) :
            Tiles(m.bt, c, Get(m.chrom_lengths)[c])

\* C4: for every chromosome of an index built from endpoints (from_dict,
\* from_digest_iter, from_HiCRef), its intervals are pairwise
\* non-overlapping and contiguous, the first starts at 0 and the last ends
\* at the length recorded in chrom_lengths: they cover [0, chrom_length).
C4_IntervalsCoverChromosome ==
    /\ fm # None => Covered(Get(fm))
    /\ fm_hicref # None => Covered(Get(fm_hicref).map)

\* both builders have run and a chromosome has several intervals
C4_Witness ==
    /\ fm # None
    /\ fm_hicref # None
    /\ \E i, j \in 1..Len(Get(fm_hicref).map.bt) :
            /\ i # j
            /\ chrom_of(Get(fm_hicref).map.bt[i])
                    = chrom_of(Get(fm_hicref).map.bt[j])
    /\ Len(d) = 2

\* the query of an iter_overlaps call, as numbers
QChrom == ret.query[1]
QStart == ret.query[2]
QEnd == ret.query[3]

\* C5: the overlaps a query returns are in ascending fragment-start order,
\* every returned overlap has overlap_len > 0, and a query with
\* start = end returns no overlap at all.
C5_OverlapsAscendingPositive ==
    ret.op = "iter_overlaps" =>
        /\ \A i, j \in 1..Len(ret.value) :
                i < j => ret.value[i].frag_start < ret.value[j].frag_start
        /\ \A i \in 1..Len(ret.value) : ret.value[i].overlap > 0
        /\ QStart = QEnd => ret.value = <<>>

\* a query that returned several overlaps
C5_Witness ==
    /\ ret.op = "iter_overlaps"
    /\ Len(ret.value) >= 2
    /\ d # Fixture

\* the fragments of chromosome c that share a base with [start, end)
Intersecting(bt, c, start, end) ==
    {f \in Fragments(bt) :
        f[1] = c /\ Max(start, f[2]) < Min(end, f[3])}

\* C6: with min_overlap = 0 a query (chrom, start, end) returns exactly the
\* fragments of that chromosome whose half-open interval intersects
\* [start, end), each once, each with overlap_len = min(end, frag_end) -
\* max(start, frag_start); over the fixture's chr1 [10,20,30,100], (15,25)
\* gives lengths 5 and 5, (9,10) gives length 1 on fragment 0 and
\* (100,110) gives nothing.
C6_QueryReturnsIntersecting ==
    (ret.op = "iter_overlaps" /\ ret.min_overlap = 0) =>
        LET out == ret.value
            bt == Get(fm).bt
        IN  /\ {<<out[i].frag_chrom, out[i].frag_start, out[i].frag_end,
                  out[i].frag_id>> : i \in 1..Len(out)}
                    = Intersecting(bt, QChrom, QStart, QEnd)
            /\ Len(out) = Cardinality(Intersecting(bt, QChrom, QStart, QEnd))
            /\ \A i \in 1..Len(out) :
                    out[i].overlap = Min(QEnd, out[i].frag_end)
                                        - Max(QStart, out[i].frag_start)
            /\ (d = Fixture /\ QChrom = "chr1") =>
                    /\ (QStart = 15 /\ QEnd = 25) =>
                            /\ Len(out) = 2
                            /\ out[1].overlap = 5
                            /\ out[2].overlap = 5
                    /\ (QStart = 9 /\ QEnd = 10) =>
                            /\ Len(out) = 1
                            /\ out[1].overlap = 1
                            /\ out[1].frag_id = 0
                    /\ (QStart = 100 /\ QEnd = 110) => out = <<>>

\* the tested query over two fragments of the fixture
C6_Witness ==
    /\ ret.op = "iter_overlaps"
    /\ ret.min_overlap = 0
    /\ d = Fixture
    /\ ret.query = <<"chr1", 15, 25, "my_id">>
    /\ Len(ret.value) = 2

\* C7: building the index from a map of endpoint lists, writing it with
\* save_to_HiCRef and re-parsing it with from_HiCRef yields the identical
\* set of intervals (same chrom, start, end and fragment id).  Stated for
\* the well-formed (strictly increasing) lists alone.
C7_HiCRefRoundTrip ==
    (/\ fm_hicref # None
     /\ Get(fm_hicref).loaded_from.slot = "fm"
     /\ ~Malformed(d))
    => Fragments(Get(fm_hicref).map.bt)
            = Fragments(Get(fm_hicref).loaded_from.bt)

\* C8: save_to_bed followed by from_bed_file yields the same intervals in
\* the same order, and converting between the HiCRef text form and the
\* interval table in either direction loses no fragment definition
\* (chrom, start, end, fragment id).  Stated for the well-formed lists.
C8_BedRoundTripAndConversions ==
    ~Malformed(d) =>
        /\ fm_bed # None =>
                Get(fm_bed).map.bt = Get(fm_bed).loaded_from.bt
        /\ (fm_hicref # None /\ Get(fm_hicref).loaded_from.slot = "fm_bed")
                => Fragments(Get(fm_hicref).map.bt)
                        = Fragments(Get(fm_hicref).loaded_from.bt)

\* the fragments that overlap the assigned segment by more than min_overlap
Candidates ==
    {f \in Fragments(Get(fm).bt) :
        /\ f[1] = ret.segment.chrom
        /\ Min(ret.segment.end, f[3]) - Max(ret.segment.start, f[2])
                > ret.min_overlap}

\* the bases fragment f shares with the assigned segment
Shared(f) == Min(ret.segment.end, f[3]) - Max(ret.segment.start, f[2])

\* C9: assign returns (none, none) when no fragment overlaps the segment by
\* more than min_overlap and (that fragment's id, simple) when exactly one
\* does, even if the segment touches other fragments by min_overlap bases
\* or fewer; segment [5,10) of the fixture gets fragment 0, simple.
C9_AssignNoneOrSimple ==
    ret.op = "assign_to_fragment" =>
        /\ Candidates = {} =>
                ret.value = [frag_id |-> None, mapping_type |-> "none"]
        /\ Cardinality(Candidates) = 1 =>
                /\ ret.value.mapping_type = "simple"
                /\ ret.value.frag_id = {f[4] : f \in Candidates}
        /\ (d = Fixture /\ ret.min_overlap = 0
                /\ ret.segment = [chrom |-> "chr1", start |-> 5, end |-> 10])
            => ret.value = [frag_id |-> Some(0), mapping_type |-> "simple"]

\* one fragment above min_overlap while the segment also touches another
C9_Witness ==
    /\ ret.op = "assign_to_fragment"
    /\ Cardinality(Candidates) = 1
    /\ ret.min_overlap > 0
    /\ \E f \in Fragments(Get(fm).bt) :
            /\ f \notin Candidates
            /\ f[1] = ret.segment.chrom
            /\ Shared(f) > 0
    /\ ret.value.mapping_type = "simple"

\* C10: when more than one overlap exceeds min_overlap, assign returns
\* multi_frag and the id of the fragment with the greatest overlap, the
\* lowest id among those tied for it; over the fixture, segment [5,12)
\* gets fragment 0 and segment [5,20) gets fragment 1.
C10_AssignLargestOverlap ==
    ret.op = "assign_to_fragment" =>
        /\ Cardinality(Candidates) > 1 =>
                /\ ret.value.mapping_type = "multi_frag"
                /\ \E f \in Candidates :
                        /\ ret.value.frag_id = Some(f[4])
                        /\ \A g \in Candidates :
                                \/ Shared(f) > Shared(g)
                                \/ (Shared(f) = Shared(g) /\ f[4] <= g[4])
        /\ (d = Fixture /\ ret.min_overlap = 0
                /\ ret.segment.chrom = "chr1" /\ ret.segment.start = 5) =>
                /\ ret.segment.end = 12 =>
                        ret.value = [frag_id |-> Some(0),
                                     mapping_type |-> "multi_frag"]
                /\ ret.segment.end = 20 =>
                        ret.value = [frag_id |-> Some(1),
                                     mapping_type |-> "multi_frag"]

\* two fragments tied for the greatest overlap, the lower id returned
C10_Witness ==
    /\ ret.op = "assign_to_fragment"
    /\ \E f, g \in Candidates :
            /\ f[4] < g[4]
            /\ Shared(f) = Shared(g)
            /\ \A h \in Candidates : Shared(h) <= Shared(f)
            /\ ret.value.frag_id = Some(f[4])
    /\ ret.value.mapping_type = "multi_frag"

\* the rows the workers have produced so far, wherever they are now
RowsOf(rows) == {rows[k] : k \in 1..Len(rows)}

RowSet ==
    IF pool.phase = "none" THEN {}
    ELSE UNION ({RowsOf(Get(pool.results[p])) :
                    p \in {q \in DOMAIN pool.results :
                             pool.results[q] # None}}
                \cup {RowsOf(Get(pool.running[w]).rows) :
                        w \in {v \in DOMAIN pool.running :
                                 pool.running[v] # None}})

\* the read groups (as indexes into the table) processed so far
Processed ==
    IF pool.phase = "none" THEN {}
    ELSE UNION ({RowsOf(pool.partitions[p]) :
                    p \in {q \in DOMAIN pool.results :
                             pool.results[q] # None}}
                \cup {{pool.partitions[Get(pool.running[w]).part][k] :
                         k \in 1..(Get(pool.running[w]).next - 1)} :
                        w \in {v \in DOMAIN pool.running :
                                 pool.running[v] # None}})

Failing(group) == \E i \in 1..Len(group) : malformed_segment(group[i])

\* the alignments of a read that pass the command's quality cutoff
Survivors(group) == considered(group, default_mapping_quality_cutoff)

UnknownChrom(s) == s.chrom \notin chroms_of_index(Get(fm))

Ordered == by_query_start(considered(ret.input_bam,
                                     ret.mapping_quality_cutoff))

\* C12: with --contained, alignment i of a read is discarded exactly when
\* another alignment j of the read holds i's query interval cut by the
\* configured trim at both ends inside its own uncut query interval
\* (of two that hold each other, the one that loses the tie-break), and
\* each discarded alignment is discarded once.
C12_ContainedUsesConfiguredTrim ==
    (ret.op = "cluster_reads" /\ ret.contained) =>
        /\ ret.value.keep_bam =
             at_indexes(Ordered,
                        {i \in 1..Len(Ordered) :
                           ~\E j \in 1..Len(Ordered) :
                              /\ j # i
                              /\ contains_trimmed(Ordered[i], Ordered[j],
                                                  ret.trim)
                              /\ contains_trimmed(Ordered[j], Ordered[i],
                                                  ret.trim)
                                   => loses_tie(Ordered, i, j)},
                        Len(Ordered))
        /\ Len(ret.value.keep_bam) + Len(ret.value.discard_bam)
             = Len(ret.input_bam)

\* C13: running cluster_reads again on the keep_bam of a first run, with
\* the same trim, mapping_quality_cutoff and mode, keeps every alignment:
\* the second keep_bam is the first.
C13_ClusterReadsIdempotent ==
    (ret.op = "cluster_reads" /\ ret.rerun) =>
        /\ ret.value.keep_bam = ret.input_bam
        /\ ret.value.discard_bam = <<>>

\* a second run on two or more survivors of a first run that discarded
\* an alignment, in either mode, with a trim
C13_Witness ==
    /\ ret.op = "cluster_reads"
    /\ ret.rerun
    /\ ret.discarded_before > 0
    /\ Len(ret.input_bam) >= 2
    /\ ret.trim > 0

IsSubSeq(sub, seq) ==
    \E f \in [1..Len(sub) -> 1..Len(seq)] :
        /\ \A i \in 1..Len(sub) : seq[f[i]] = sub[i]
        /\ \A i \in 1..(Len(sub) - 1) : f[i] < f[i + 1]

Ascending(seq) ==
    \A i \in 1..(Len(seq) - 1) : seq[i].query_start <= seq[i + 1].query_start

C15_ThreeAlignmentsKeepTwo ==
    (/\ ret.op = "cluster_reads"
     /\ ret.input_bam = ThreeAlignments
     /\ ret.contained
     /\ ret.trim = 2) =>
        ret.value.keep_bam =
            <<QuerySegment(0, 50, 60), QuerySegment(45, 100, 60)>>

C15_Witness ==
    /\ ret.op = "cluster_reads"
    /\ ret.input_bam = ThreeAlignments
    /\ ret.contained
    /\ ret.trim = 2
    /\ ret.value.discard_bam = <<QuerySegment(40, 48, 60)>>

\* C16: the walk of a read holds exactly one monomer per surviving
\* alignment, the i-th monomer being the i-th surviving alignment in query
\* order, whatever fragment assignment (none included) and whatever
\* "contained" label the monomers got; a read without a surviving
\* alignment has no walk.
C16_OneMonomerPerSegmentInOrder ==
    \A r \in Processed :
        LET g == Survivors(align_table[r])
            rows == {row \in RowSet : row.read_idx = r}
        IN  ~Failing(align_table[r]) =>
              IF Len(g) = 0 THEN rows = {}
              ELSE /\ Cardinality(rows) = 1
                   /\ \A row \in rows :
                        /\ Len(row.walk) = Len(g)
                        /\ \A i \in 1..Len(g) : row.walk[i].segment = g[i]
                        /\ Ascending([i \in 1..Len(g) |-> row.walk[i].segment])

\* a walk of three monomers in which one is unassigned and a later one is
\* labelled contained, and a walk shorter than its read by the alignment
\* below the quality cutoff
C16_Witness ==
    /\ \E row \in RowSet :
         /\ Len(row.walk) = 3
         /\ row.walk[2].mapping_type = "none"
         /\ row.walk[3].contained
         /\ ~row.walk[1].contained
    /\ \E row \in RowSet :
         Len(row.walk) < Len(align_table[row.read_idx])

\* the positions of a record as a set
PositionSet(record) ==
    {record.positions[j] : j \in 1..Len(record.positions)}

Emitted == {ret.output_porec[i] : i \in 1..Len(ret.output_porec)}

\* C17: without --direct, flatten_multiway on a walk of n monomers writes
\* exactly C(n, size) records, one for every set of size walk positions,
\* and none when n < size; without --sort the monomers of each record are
\* in walk order.
C17_CoInclusionEmitsEveryCombination ==
    (ret.op = "flatten_multiway" /\ ~ret.direct) =>
        LET n == Len(ret.input_porec)
        IN  /\ \A record \in Emitted :
                 /\ PositionSet(record) \subseteq 1..n
                 /\ Cardinality(PositionSet(record)) = ret.size
            /\ Cardinality({PositionSet(record) : record \in Emitted})
                 = Len(ret.output_porec)
            /\ ret.closed =>
                 /\ Len(ret.output_porec) = binomial(n, ret.size)
                 /\ {PositionSet(record) : record \in Emitted}
                      = {S \in SUBSET (1..n) : Cardinality(S) = ret.size}
                 /\ n < ret.size => ret.output_porec = <<>>
            /\ ~ret.sort =>
                 \A record \in Emitted :
                    /\ \A j \in 1..(ret.size - 1) :
                         record.positions[j] < record.positions[j + 1]
                    /\ \A j \in 1..ret.size :
                         record.monomers[j]
                           = ret.input_porec[record.positions[j]]

\* every pair of a walk of four monomers is written, one of them a pair of
\* monomers that are not neighbours
C17_Witness ==
    /\ ret.op = "flatten_multiway"
    /\ ~ret.direct
    /\ ret.closed
    /\ Len(ret.input_porec) = 4
    /\ ret.size = 2
    /\ Len(ret.output_porec) = 6
    /\ \E record \in Emitted : record.positions = <<1, 4>>

\* C18: with --direct, flatten_multiway on a walk of n monomers writes
\* exactly max(0, n - size + 1) records, the i-th holding the monomers at
\* the walk positions i..i+size-1; each of them is a record the command
\* writes without --direct for the same walk, size and --sort.
C18_DirectEmitsWindows ==
    (ret.op = "flatten_multiway" /\ ret.direct) =>
        LET n == Len(ret.input_porec)
            co_inclusion == flatten_multiway(ret.input_porec, ret.size,
                                             ret.sort, FALSE)
        IN  /\ \A i \in 1..Len(ret.output_porec) :
                 /\ PositionSet(ret.output_porec[i]) = i..(i + ret.size - 1)
                 /\ ~ret.sort =>
                      ret.output_porec[i].positions
                        = [j \in 1..ret.size |-> i + j - 1]
                 /\ \E k \in 1..Len(co_inclusion) :
                      co_inclusion[k] = ret.output_porec[i]
            /\ ret.closed =>
                 Len(ret.output_porec) = Max(0, n - ret.size + 1)

\* the two windows of width three of a walk of four monomers are written
C18_Witness ==
    /\ ret.op = "flatten_multiway"
    /\ ret.direct
    /\ ret.closed
    /\ Len(ret.input_porec) = 4
    /\ ret.size = 3
    /\ Len(ret.output_porec) = 2

\* the monomers of the walk can be told apart
Distinguishable(walk) ==
    \A i, j \in 1..Len(walk) : i # j => walk[i] # walk[j]

IsPrefix(s, t) == Len(s) <= Len(t) /\ SubSeq(t, 1, Len(s)) = s

Alone(r) ==
    process_read(r, align_table[r], Get(fm), Options, FALSE).rows

IsolatedSoFar ==
    \A r \in Processed :
        /\ Failing(align_table[r]) =>
             /\ \E entry \in log :
                  entry.level = "error" /\ entry.read_idx = r
             /\ ~\E row \in RowSet : row.read_idx = r
        /\ ~Failing(align_table[r]) =>
             /\ {row \in RowSet : row.read_idx = r} = RowsOf(Alone(r))
             /\ ~\E entry \in log :
                  entry.level = "error" /\ entry.read_idx = r

AllProcessed ==
    /\ porec_df # None
    /\ Processed = 1..Len(align_table)
    /\ RowsOf(Get(porec_df)) = RowSet

SharingMoreThan(bt, c, start, end, min_overlap) ==
    {f \in Fragments(bt) :
        f[1] = c /\ Min(end, f[3]) - Max(start, f[2]) > min_overlap}

\* the rows bedtools reports for the last query that iter_overlaps left out
Dropped(zero_hits) ==
    LET found == found_overlaps(Get(fm), ret.query, zero_hits)
    IN  {found[i] : i \in 1..Len(found)} \ RowsOf(ret.value)

\* C21: iter_overlaps(query, min_overlap) never yields an overlap whose
\* length is <= min_overlap and yields every intersecting fragment whose
\* overlap length is > min_overlap (the threshold is strict); with the
\* default min_overlap = 0 only zero-length intersections are dropped.
C21_StrictMinOverlapThreshold ==
    ret.op = "iter_overlaps" =>
        LET out == ret.value
        IN  /\ \A i \in 1..Len(out) : out[i].overlap > ret.min_overlap
            /\ {<<out[i].frag_chrom, out[i].frag_start, out[i].frag_end,
                  out[i].frag_id>> : i \in 1..Len(out)}
                    = SharingMoreThan(Get(fm).bt, QChrom, QStart, QEnd,
                                      ret.min_overlap)
            /\ Len(out) = Cardinality(SharingMoreThan(Get(fm).bt, QChrom,
                                        QStart, QEnd, ret.min_overlap))
            /\ \A i \in 1..Len(out) :
                    out[i].overlap = Min(QEnd, out[i].frag_end)
                                        - Max(QStart, out[i].frag_start)
            /\ ret.min_overlap = 0 =>
                    \A zero_hits \in BOOLEAN :
                        \A row \in Dropped(zero_hits) : row.overlap = 0

\* a query with min_overlap 1 that lost a fragment sharing exactly one base
\* and kept a fragment sharing two
C21_Witness ==
    /\ ret.op = "iter_overlaps"
    /\ ret.min_overlap = 1
    /\ \E row \in Dropped(FALSE) : row.overlap = 1
    /\ \E i \in 1..Len(ret.value) : ret.value[i].overlap = 2

\* each of two alignments holds the other's query interval cut by trim
mutually_contained(a, b, trim) ==
    contains_trimmed(a, b, trim) /\ contains_trimmed(b, a, trim)

\* C22: in containment mode, of two segments that are mutually contained
\* exactly one is discarded because of that pair: the one with the lower
\* mapping_quality or, the qualities being equal, the one with the lower
\* index in query order; the other of the two is kept unless a third
\* segment contains it, and the command returns its two files.
C22_MutualContainmentTieBreak ==
    (ret.op = "cluster_reads" /\ ret.contained) =>
        \A i, j \in 1..Len(Ordered) :
            (i < j /\ mutually_contained(Ordered[i], Ordered[j], ret.trim)) =>
                LET lower == IF Ordered[i].mapping_quality
                                    <= Ordered[j].mapping_quality
                             THEN i ELSE j
                    other == IF lower = i THEN j ELSE i
                IN  /\ Ordered[lower] \in RowsOf(ret.value.discard_bam)
                    /\ (\A k \in 1..Len(Ordered) \ {i, j} :
                            ~contains_trimmed(Ordered[other], Ordered[k],
                                              ret.trim))
                         => Ordered[other] \in RowsOf(ret.value.keep_bam)

\* an alignment of the last call's input below its mapping_quality_cutoff
BelowCutoff(s) == s.mapping_quality < ret.mapping_quality_cutoff

\* the input of the last call without the alignments below the cutoff
AtOrAboveCutoff == SelectSeq(ret.input_bam, LAMBDA s : ~BelowCutoff(s))

\* C23: segments with mapping_quality below mapping_quality_cutoff are
\* removed before any containment or overlap check: none of them survives,
\* none of them causes another segment to be discarded (the survivors are
\* those of the same run on the input without them), and a read whose
\* segments are all below the cutoff yields an empty surviving set.
C23_CutoffBeforeChecks ==
    ret.op = "cluster_reads" =>
        /\ \A s \in RowsOf(ret.value.keep_bam) : ~BelowCutoff(s)
        /\ \A s \in RowsOf(ret.input_bam) :
                BelowCutoff(s) => s \in RowsOf(ret.value.discard_bam)
        /\ ret.value.keep_bam =
                cluster_reads(AtOrAboveCutoff, ret.trim, ret.contained,
                              0).keep_bam
        /\ (\A s \in RowsOf(ret.input_bam) : BelowCutoff(s))
                => ret.value.keep_bam = <<>>

\* a run of the clustering tool that kept an alignment which the same run
\* without the cutoff discards
C23_Witness ==
    /\ ret.op = "cluster_reads"
    /\ ~ret.rerun
    /\ ~ret.contained
    /\ ret.mapping_quality_cutoff > 0
    /\ \E s \in RowsOf(ret.value.keep_bam) :
            s \notin RowsOf(cluster_reads(ret.input_bam, ret.trim,
                                          ret.contained, 0).keep_bam)

QueryLen(s) == s.query_end - s.query_start

\* the bases the earlier alignment a and the later alignment b share once
\* trim bases are cut off each one's boundary nearest the other
SharedAfterTrim(a, b, trim) ==
    Min(a.query_end - trim, b.query_end)
        - Max(a.query_start, b.query_start + trim)

\* x is the shorter of the two or, the lengths being equal, not the one
\* of higher quality
ShorterOrLower(x, y) ==
    \/ QueryLen(x) < QueryLen(y)
    \/ QueryLen(x) = QueryLen(y) /\ x.mapping_quality <= y.mapping_quality

Generators == {pool.gen[c] : c \in Callers}

\* C26: after construction no sequence of iter_overlaps queries, by one
\* caller or by concurrent workers, changes the index: its intervals and
\* its chrom_lengths are those it was built with after any query, and a
\* repeated identical query returns the identical overlaps.
C26_QueriesLeaveIndexUnchanged ==
    pool.phase = "queries" =>
        /\ fm = Some(from_dict(d))
        /\ Get(fm).bt = BedTool(
               endpoints_to_intervals("chr1", <<10, 20, 30, 100>>, 0)
                   \o endpoints_to_intervals("chr2", <<5, 15, 25, 90>>, 4))
        /\ Get(fm).chrom_lengths
               = Some(SetItem(SetItem(EmptyDict, "chr1", 100), "chr2", 90))
        /\ \A g \in Generators :
               (g.round = 2 /\ g.state = "exhausted") => g.got = g.first

\* a worker has run one query twice and got two overlaps both times, the
\* other worker having taken overlaps of a different query meanwhile
C26_Witness ==
    /\ pool.phase = "queries"
    /\ \E c, o \in Callers :
          /\ c # o
          /\ pool.gen[c].round = 2
          /\ pool.gen[c].state = "exhausted"
          /\ Len(pool.gen[c].got) = 2
          /\ pool.gen[o].state = "running"
          /\ pool.gen[o].query # pool.gen[c].query

\* C29: for every HicContact c with integer position, fragment and
\* mapping-quality fields and space-free read id and chromosome names,
\* HicContact.from_hictxt(str(c)) equals c, both strand flags included.
C29_HicContactRoundTrip ==
    (ret.op = "from_hictxt" /\ ret.from_str) => ret.contact = ret.original

\* the fragment ids of the lines of the last call's fragment-to-bin
\* reference are numbers, and so are the bins
AllNumbers ==
    \A n \in 1..Len(ret.frag_bin_reference) :
        /\ is_int(ret.frag_bin_reference[n][1])
        /\ is_int(ret.frag_bin_reference[n][2])

\* a fragment id is on more than one line of the reference
SeenTwice ==
    \E m, n \in 1..Len(ret.frag_bin_reference) :
        /\ m < n
        /\ int(ret.frag_bin_reference[m][1])
               = int(ret.frag_bin_reference[n][1])

\* C27: bin_hic_data raises ValueError when the same fragment id appears on
\* more than one line of the fragment-to-bin reference, so a fragment is
\* never silently remapped to a later bin.
C27_DuplicateFragmentRaises ==
    (ret.op = "bin_hic_data" /\ AllNumbers /\ SeenTwice) =>
        ret.value.raised = "ValueError: fragment seen more than once"

\* the bin the fragment-to-bin reference of the last call gives fragment
\* f: that of the last line with this fragment id
BinOf(f) ==
    LET lines == ret.frag_bin_reference
        last == CHOOSE n \in 1..Len(lines) :
                    /\ int(lines[n][1]) = f
                    /\ \A m \in (n + 1)..Len(lines) : int(lines[m][1]) # f
    IN  int(lines[last][2])

\* the two bins of the n-th contact line, as a set
BinPair(n) ==
    {BinOf(int(ret.input_hictxt[n][5])), BinOf(int(ret.input_hictxt[n][9]))}

RECURSIVE SumOfCounts(_, _)
SumOfCounts(matrix, n) ==
    IF n = 0 THEN 0 ELSE SumOfCounts(matrix, n - 1) + int(matrix[n][3])

\* C28: bin_hic_data counts each input contact line exactly once under the
\* unordered bin pair of its two fragments: every output key (b1, b2) has
\* b1 <= b2 and is written once, a contact with bins (x, y) and one with
\* bins (y, x) are counted under the same key, and the counts add up to
\* the number of input contact lines; a run that raises writes nothing.
C28_ContactsCountedOncePerBinPair ==
    ret.op = "bin_hic_data" =>
        IF ret.value.raised # "none"
        THEN ret.value.output_bin_matrix = None
        ELSE LET matrix == Get(ret.value.output_bin_matrix)
                 lines == 1..Len(ret.input_hictxt)
             IN  /\ ret.value.output_bin_matrix # None
                 /\ \A i \in 1..Len(matrix) :
                        /\ int(matrix[i][1]) <= int(matrix[i][2])
                        /\ int(matrix[i][3]) =
                              Cardinality({n \in lines :
                                  BinPair(n) = {int(matrix[i][1]),
                                                int(matrix[i][2])}})
                        /\ int(matrix[i][3]) > 0
                 /\ \A i, j \in 1..Len(matrix) :
                        i # j => <<matrix[i][1], matrix[i][2]>>
                                    # <<matrix[j][1], matrix[j][2]>>
                 /\ \A n \in lines :
                        \E i \in 1..Len(matrix) :
                            BinPair(n) = {int(matrix[i][1]),
                                          int(matrix[i][2])}
                 /\ SumOfCounts(matrix, Len(matrix)) = Len(ret.input_hictxt)

\* three contact lines, one with bins (x, y) and one with bins (y, x),
\* x < y, counted under the one key (x, y)
C28_Witness ==
    /\ ret.op = "bin_hic_data"
    /\ ret.value.raised = "none"
    /\ Len(ret.input_hictxt) = 3
    /\ \E m, n \in 1..Len(ret.input_hictxt) :
          /\ BinOf(int(ret.input_hictxt[m][5]))
                < BinOf(int(ret.input_hictxt[m][9]))
          /\ BinOf(int(ret.input_hictxt[n][5]))
                > BinOf(int(ret.input_hictxt[n][9]))
          /\ BinPair(m) = BinPair(n)
    /\ \E i \in 1..Len(Get(ret.value.output_bin_matrix)) :
          int(Get(ret.value.output_bin_matrix)[i][3]) >= 2

\* the first line of the fragment reference with the fragment id, and the
\* first record of the intersection with it
FirstLineOf(id) ==
    ret.fragment_reference[
        CHOOSE k \in 1..Len(ret.fragment_reference) :
            /\ ret.fragment_reference[k][4] = id
            /\ \A j \in 1..(k - 1) : ret.fragment_reference[j][4] # id]

FirstRecordOf(id) ==
    ret.value.map_bed[
        CHOOSE n \in 1..Len(ret.value.map_bed) :
            /\ ret.value.map_bed[n][4] = id
            /\ \A m \in 1..(n - 1) : ret.value.map_bed[m][4] # id]

\* the middle base of a line of the fragment reference
Midpoint(l) == (int(l[2]) + int(l[3])) \div 2

\* C30: fragment_bin_assignments writes every fragment id of the fragment
\* reference exactly once to the mapping file, paired with the bin of the
\* first intersection record of its one-base midpoint interval
\* [(start+end)//2, (start+end)//2 + 1); later records for a fragment id
\* already written are not written.
C30_EachFragmentWrittenOnce ==
    ret.op = "fragment_bin_assignments" =>
        LET out == ret.value.mapping_bed_out
        IN  /\ {out[i][1] : i \in 1..Len(out)}
                  = {ret.fragment_reference[k][4] :
                        k \in 1..Len(ret.fragment_reference)}
            /\ \A i, j \in 1..Len(out) : i # j => out[i][1] # out[j][1]
            /\ \A i \in 1..Len(out) :
                  LET record == FirstRecordOf(out[i][1])
                      line == FirstLineOf(out[i][1])
                  IN  /\ out[i][2] = record[8]
                      /\ record[1] = line[1]
                      /\ int(record[2]) = Midpoint(line)
                      /\ int(record[3]) = Midpoint(line) + 1
                      /\ IF \E b \in RowsOf(ret.bin_reference) :
                               /\ b[1] = line[1]
                               /\ int(b[2]) <= Midpoint(line)
                               /\ Midpoint(line) < int(b[3])
                         THEN \E b \in RowsOf(ret.bin_reference) :
                               /\ b[1] = line[1]
                               /\ int(b[2]) <= Midpoint(line)
                               /\ Midpoint(line) < int(b[3])
                               /\ out[i][2] = b[4]
                         ELSE out[i][2] = dot

\* a fragment id on two lines of the reference and a midpoint in two bins:
\* more records than lines written, and the bin written is the first
\* record's, a later record of the fragment id having another bin
C30_Witness ==
    /\ ret.op = "fragment_bin_assignments"
    /\ Len(ret.fragment_reference) = 2
    /\ Len(ret.value.map_bed) >= 3
    /\ Len(ret.value.mapping_bed_out) = 1
    /\ \E n \in 1..Len(ret.value.map_bed) :
          ret.value.map_bed[n][8] # ret.value.mapping_bed_out[1][2]

====
